---- MODULE Spec2Model ----
(***************************************************************************)
(* BQL parser front-end: the PEG grammar of bql.peg, the deferred          *)
(* semantic actions it issues, and the range-tagged parse stack the        *)
(* actions reduce.  A second part exercises the parse stack directly, the  *)
(* way the assembler unit test does.                                       *)
(***************************************************************************)
EXTENDS Integers, Sequences, FiniteSets, TLC

VARIABLES text, acts, pc, stack, status, result, lastOp

\* The decoder of package data: its configuration, the Map and the target
\* handed to Decode, the error Decode returned, and how far the call is.
VARIABLES config, srcMap, dst, err, phase

decoderVars == <<config, srcMap, dst, err, phase>>

vars == <<text, acts, pc, stack, status, result, lastOp, config, srcMap, dst, err, phase>>

\* No decoder in use.
NoDecoder ==
    /\ config = "none"
    /\ srcMap = "none"
    /\ dst = "none"
    /\ err = "none"
    /\ phase = "none"

(***************************************************************************)
(* Characters.  A text is a sequence of one-character strings; positions   *)
(* are 0-based rune offsets, spans are half-open [begin, end).             *)
(***************************************************************************)
LowerCase == <<"a","b","c","d","e","f","g","h","i","j","k","l","m","n","o","p","q","r","s","t","u","v","w","x","y","z">>
UpperCase == <<"A","B","C","D","E","F","G","H","I","J","K","L","M","N","O","P","Q","R","S","T","U","V","W","X","Y","Z">>
Digits == {"0","1","2","3","4","5","6","7","8","9"}
Blank == {" ", "\t", "\n"}

UpperSet == {UpperCase[k] : k \in 1..26}
ToLower == [c \in UpperSet |-> LowerCase[CHOOSE k \in 1..26 : UpperCase[k] = c]]

\* Case folding used by peg for "double-quoted" literals and [[...]] classes.
Fold(c) == IF c \in UpperSet THEN ToLower[c] ELSE c

Letters == {LowerCase[k] : k \in 1..26}

(***************************************************************************)
(* Matching.  A lexical matcher returns the offset after the match, or     *)
(* Miss.  A rule returns a record: whether it matched, the offset after    *)
(* the match, and the action tokens of the match in the order Execute      *)
(* will run them.  The tokens of a failed alternative are dropped, as peg  *)
(* drops them when it backtracks.  Every action that reads begin and end   *)
(* directly follows its rule's own < > capture, so a token carries that    *)
(* capture.                                                                *)
(***************************************************************************)
Miss == -1
Tok(rule, b, e) == [rule |-> rule, begin |-> b, end |-> e]
Res(p, a) == [ok |-> TRUE, pos |-> p, acts |-> a]
NoMatch == [ok |-> FALSE, pos |-> 0, acts |-> <<>>]

\* "s": the literal s at offset i, letters compared case-insensitively.
LitI(t, i, s) ==
    IF /\ i + Len(s) <= Len(t)
       /\ \A k \in 1..Len(s) : Fold(t[i + k]) = Fold(s[k])
    THEN i + Len(s) ELSE Miss

\* 's': the literal s at offset i, compared exactly.
LitS(t, i, s) ==
    IF /\ i + Len(s) <= Len(t)
       /\ \A k \in 1..Len(s) : t[i + k] = s[k]
    THEN i + Len(s) ELSE Miss

\* [...]*: the offset after the longest run of characters of the class cs
\* from offset i.
Run(t, i, cs) ==
    CHOOSE j \in i..Len(t) :
        /\ \A k \in (i + 1)..j : t[k] \in cs
        /\ j < Len(t) => t[j + 1] \notin cs

\* [...]+
Run1(t, i, cs) == IF i < Len(t) /\ t[i + 1] \in cs THEN Run(t, i, cs) ELSE Miss

\* [[a-z]] matches either case.
AnyCaseLetters == Letters \cup UpperSet
IdentChars == AnyCaseLetters \cup Digits \cup {"_"}

\* sp <- ( ' ' / '\t' / '\n' )*
sp(t, i) == Run(t, i, Blank)

\* ident <- [[a-z]] ([[a-z]] / [0-9] / '_')*
\* ident whose first character may be any identifier character.
ident_AnyFirst(t, i) == Run1(t, i, IdentChars)

ident(t, i) ==
    IF i < Len(t) /\ t[i + 1] \in AnyCaseLetters THEN Run(t, i + 1, IdentChars) ELSE Miss

\* A rule of the form  Name <- < lexical > { PushComponent(begin, end, ...) }
LeafRule(name, i, p) ==
    IF p = Miss THEN NoMatch ELSE Res(p, <<Tok(name, i, p)>>)

(***************************************************************************)
(* Basic building blocks.                                                  *)
(***************************************************************************)
Relation(t, i) == LeafRule("Relation", i, ident(t, i))

ColumnName(t, i) == LeafRule("ColumnName", i, ident(t, i))

\* '-'? [0-9]+
NumericText(t, i) ==
    Run1(t, IF LitS(t, i, <<"-">>) = Miss THEN i ELSE i + 1, Digits)

NumericLiteral(t, i) == LeafRule("NumericLiteral", i, NumericText(t, i))

\* '-'? [0-9]+ '.' [0-9]+
FloatText(t, i) ==
    LET n == NumericText(t, i)
        d == LitS(t, n, <<".">>)
    IN  IF n = Miss \/ d = Miss THEN Miss ELSE Run1(t, d, Digits)

FloatLiteral(t, i) == LeafRule("FloatLiteral", i, FloatText(t, i))

Function(t, i) == LeafRule("Function", i, ident(t, i))

TRUE_(t, i) == LeafRule("TRUE_", i, LitI(t, i, <<"t","r","u","e">>))

FALSE_(t, i) == LeafRule("FALSE_", i, LitI(t, i, <<"f","a","l","s","e">>))

BooleanLiteral(t, i) ==
    LET a == TRUE_(t, i) IN IF a.ok THEN a ELSE FALSE_(t, i)

Wildcard(t, i) == LeafRule("Wildcard", i, LitS(t, i, <<"*">>))

\* ("''" / !"'" .)* : an escaped quote, or any character but a quote.
RECURSIVE StringBody(_, _)
StringBody(t, i) ==
    IF LitI(t, i, <<"'","'">>) # Miss THEN StringBody(t, i + 2)
    ELSE IF i < Len(t) /\ LitI(t, i, <<"'">>) = Miss THEN StringBody(t, i + 1)
    ELSE i

\* ['] ("''" / !"'" .)* [']
StringText(t, i) ==
    IF LitS(t, i, <<"'">>) = Miss THEN Miss
    ELSE LitS(t, StringBody(t, i + 1), <<"'">>)

StringLiteral(t, i) == LeafRule("StringLiteral", i, StringText(t, i))

ISTREAM(t, i) == LeafRule("ISTREAM", i, LitI(t, i, <<"I","S","T","R","E","A","M">>))

DSTREAM(t, i) == LeafRule("DSTREAM", i, LitI(t, i, <<"D","S","T","R","E","A","M">>))

RSTREAM(t, i) == LeafRule("RSTREAM", i, LitI(t, i, <<"R","S","T","R","E","A","M">>))

Emitter(t, i) ==
    LET a == ISTREAM(t, i)
        b == DSTREAM(t, i)
    IN  IF a.ok THEN a ELSE IF b.ok THEN b ELSE RSTREAM(t, i)

\* TUPLES carrying the action of SECONDS.
TUPLES_SecondsAction(t, i) == LeafRule("SECONDS", i, LitI(t, i, <<"T","U","P","L","E","S">>))

TUPLES(t, i) == LeafRule("TUPLES", i, LitI(t, i, <<"T","U","P","L","E","S">>))

SECONDS(t, i) == LeafRule("SECONDS", i, LitI(t, i, <<"S","E","C","O","N","D","S">>))

RangeUnit(t, i) ==
    LET a == TUPLES(t, i) IN IF a.ok THEN a ELSE SECONDS(t, i)

SourceSinkName(t, i) == LeafRule("SourceSinkName", i, ident(t, i))

SourceSinkType(t, i) == LeafRule("SourceSinkType", i, ident(t, i))

SourceSinkParamKey(t, i) == LeafRule("SourceSinkParamKey", i, ident(t, i))

SourceSinkParamVal(t, i) ==
    LeafRule("SourceSinkParamVal", i, Run1(t, i, IdentChars))

Or(t, i) == LeafRule("Or", i, LitI(t, i, <<"O","R">>))

And(t, i) == LeafRule("And", i, LitI(t, i, <<"A","N","D">>))

Equal(t, i) == LeafRule("Equal", i, LitI(t, i, <<"=">>))

Less(t, i) == LeafRule("Less", i, LitI(t, i, <<"<">>))

LessOrEqual(t, i) == LeafRule("LessOrEqual", i, LitI(t, i, <<"<","=">>))

Greater(t, i) == LeafRule("Greater", i, LitI(t, i, <<">">>))

GreaterOrEqual(t, i) == LeafRule("GreaterOrEqual", i, LitI(t, i, <<">","=">>))

NotEqual(t, i) ==
    LeafRule("NotEqual", i,
             IF LitI(t, i, <<"!","=">>) # Miss THEN LitI(t, i, <<"!","=">>)
             ELSE LitI(t, i, <<"<",">">>))

Plus(t, i) == LeafRule("Plus", i, LitI(t, i, <<"+">>))

Minus(t, i) == LeafRule("Minus", i, LitI(t, i, <<"-">>))

Multiply(t, i) == LeafRule("Multiply", i, LitI(t, i, <<"*">>))

Divide(t, i) == LeafRule("Divide", i, LitI(t, i, <<"/">>))

Modulo(t, i) == LeafRule("Modulo", i, LitI(t, i, <<"%">>))

\* The first of the alternatives rs (results at the same offset) that matched.
FirstOf(rs) ==
    IF \E k \in 1..Len(rs) : rs[k].ok
    THEN rs[CHOOSE k \in 1..Len(rs) : rs[k].ok /\ \A j \in 1..(k - 1) : ~rs[j].ok]
    ELSE NoMatch

\* Literal with the integer parser before the float parser.
Literal_IntegerFirst(t, i) ==
    FirstOf(<<NumericLiteral(t, i), FloatLiteral(t, i), StringLiteral(t, i)>>)

Literal(t, i) ==
    FirstOf(<<FloatLiteral(t, i), NumericLiteral(t, i), StringLiteral(t, i)>>)

ComparisonOp(t, i) ==
    FirstOf(<<Equal(t, i), NotEqual(t, i), LessOrEqual(t, i), Less(t, i),
              GreaterOrEqual(t, i), Greater(t, i), NotEqual(t, i)>>)

PlusMinusOp(t, i) == FirstOf(<<Plus(t, i), Minus(t, i)>>)

MultDivOp(t, i) == FirstOf(<<Multiply(t, i), Divide(t, i), Modulo(t, i)>>)

(***************************************************************************)
(* Nested expressions.                                                     *)
(***************************************************************************)
RECURSIVE Rule(_, _, _)

\* (',' sp Expression)*
RECURSIVE ExpressionTail(_, _)
ExpressionTail(t, i) ==
    LET c == LitS(t, i, <<",">>)
        x == Rule("Expression", t, sp(t, c))
        r == ExpressionTail(t, x.pos)
    IN  IF c # Miss /\ x.ok THEN Res(r.pos, x.acts \o r.acts) ELSE Res(i, <<>>)

\* Expression sp (',' sp Expression)*
ExpressionList(t, i) ==
    LET x == Rule("Expression", t, i)
        r == ExpressionTail(t, sp(t, x.pos))
    IN  IF x.ok THEN Res(r.pos, x.acts \o r.acts) ELSE NoMatch

FuncParams(t, i) ==
    LET l == ExpressionList(t, i)
    IN  IF l.ok THEN Res(l.pos, l.acts \o <<Tok("FuncParams", i, l.pos)>>)
        ELSE NoMatch

FuncApp(t, i) ==
    LET f == Function(t, i)
        o == LitS(t, sp(t, f.pos), <<"(">>)
        p == Rule("FuncParams", t, sp(t, o))
        c == LitS(t, sp(t, p.pos), <<")">>)
    IN  IF f.ok /\ o # Miss /\ p.ok /\ c # Miss
        THEN Res(c, f.acts \o p.acts \o <<Tok("FuncApp", 0, 0)>>)
        ELSE NoMatch

\* '(' sp Expression sp ')'
Parenthesized(t, i) ==
    LET o == LitS(t, i, <<"(">>)
        x == Rule("Expression", t, sp(t, o))
        c == LitS(t, sp(t, x.pos), <<")">>)
    IN  IF o # Miss /\ x.ok /\ c # Miss THEN Res(c, x.acts) ELSE NoMatch

baseExpr(t, i) ==
    LET p == Parenthesized(t, i)
        b == BooleanLiteral(t, i)
        f == Rule("FuncApp", t, i)
        c == ColumnName(t, i)
        w == Wildcard(t, i)
    IN  IF p.ok THEN p
        ELSE IF b.ok THEN b
        ELSE IF f.ok THEN f
        ELSE IF c.ok THEN c
        ELSE IF w.ok THEN w
        ELSE Literal(t, i)

\* One level of the precedence ladder,  < x sp (op sp x)? > { action },  at
\* offset i: a is the first operand, o the operator after it and b the
\* second operand after that; p is the offset after the first operand's sp.
BinaryLevel(name, i, p, a, o, b) ==
    IF ~a.ok THEN NoMatch
    ELSE IF o.ok /\ b.ok
    THEN Res(b.pos, a.acts \o o.acts \o b.acts \o <<Tok(name, i, b.pos)>>)
    ELSE Res(p, a.acts \o <<Tok(name, i, p)>>)

\* Each level is written in two parts: xAfter is the rule x at offset i with
\* its first operand a already matched there, and x matches the first
\* operands of the levels below, tightest first, and hands each to the level
\* above it.
productExprAfter(t, i, a) ==
    LET p == sp(t, a.pos)
        o == MultDivOp(t, p)
        b == Rule("baseExpr", t, sp(t, o.pos))
    IN  BinaryLevel("productExpr", i, p, a, o, b)

\* termExpr with the operator matched but its action left out.
termExprAfter_OperatorNotPushed(t, i, a) ==
    LET p == sp(t, a.pos)
        o == PlusMinusOp(t, p)
        b == Rule("productExpr", t, sp(t, o.pos))
    IN  BinaryLevel("termExpr", i, p, a, [o EXCEPT !.acts = <<>>], b)

\* termExpr taking a second operator and operand when they follow.
termExprAfter_Chained(t, i, a) ==
    LET p == sp(t, a.pos)
        o == PlusMinusOp(t, p)
        b == Rule("productExpr", t, sp(t, o.pos))
        o2 == PlusMinusOp(t, sp(t, b.pos))
        b2 == Rule("productExpr", t, sp(t, o2.pos))
    IN  IF a.ok /\ o.ok /\ b.ok /\ o2.ok /\ b2.ok
        THEN Res(b2.pos, a.acts \o o.acts \o b.acts \o o2.acts \o b2.acts
                         \o <<Tok("termExpr", i, b2.pos)>>)
        ELSE BinaryLevel("termExpr", i, p, a, o, b)

termExprAfter(t, i, a) ==
    LET p == sp(t, a.pos)
        o == PlusMinusOp(t, p)
        b == Rule("productExpr", t, sp(t, o.pos))
    IN  BinaryLevel("termExpr", i, p, a, o, b)

\* comparisonExpr with a whole Expression as its right operand.
comparisonExprAfter_RightIsExpression(t, i, a) ==
    LET p == sp(t, a.pos)
        o == ComparisonOp(t, p)
        b == Rule("Expression", t, sp(t, o.pos))
    IN  BinaryLevel("comparisonExpr", i, p, a, o, b)

comparisonExprAfter(t, i, a) ==
    LET p == sp(t, a.pos)
        o == ComparisonOp(t, p)
        b == Rule("termExpr", t, sp(t, o.pos))
    IN  BinaryLevel("comparisonExpr", i, p, a, o, b)

andExprAfter(t, i, a) ==
    LET p == sp(t, a.pos)
        o == And(t, p)
        b == Rule("comparisonExpr", t, sp(t, o.pos))
    IN  BinaryLevel("andExpr", i, p, a, o, b)

orExprAfter(t, i, a) ==
    LET p == sp(t, a.pos)
        o == Or(t, p)
        b == Rule("andExpr", t, sp(t, o.pos))
    IN  BinaryLevel("orExpr", i, p, a, o, b)

productExpr(t, i) ==
    LET b == Rule("baseExpr", t, i)
    IN  IF b.ok THEN productExprAfter(t, i, b) ELSE NoMatch

termExpr(t, i) ==
    LET b == Rule("baseExpr", t, i)
        p == productExprAfter(t, i, b)
    IN  IF b.ok /\ p.ok THEN termExprAfter(t, i, p) ELSE NoMatch

comparisonExpr(t, i) ==
    LET b == Rule("baseExpr", t, i)
        p == productExprAfter(t, i, b)
        m == termExprAfter(t, i, p)
    IN  IF b.ok /\ p.ok /\ m.ok THEN comparisonExprAfter(t, i, m) ELSE NoMatch

andExpr(t, i) ==
    LET b == Rule("baseExpr", t, i)
        p == productExprAfter(t, i, b)
        m == termExprAfter(t, i, p)
        c == comparisonExprAfter(t, i, m)
    IN  IF b.ok /\ p.ok /\ m.ok /\ c.ok THEN andExprAfter(t, i, c) ELSE NoMatch

orExpr(t, i) ==
    LET b == Rule("baseExpr", t, i)
        p == productExprAfter(t, i, b)
        m == termExprAfter(t, i, p)
        c == comparisonExprAfter(t, i, m)
        a == andExprAfter(t, i, c)
    IN  IF b.ok /\ p.ok /\ m.ok /\ c.ok /\ a.ok THEN orExprAfter(t, i, a) ELSE NoMatch

Expression(t, i) == orExpr(t, i)

(***************************************************************************)
(* Statement components.                                                   *)
(***************************************************************************)
\* Projection sp (',' sp Projection)*, where Projection <- Expression
\* Projections with the capture opened after the first projection.
Projections_LateCapture(t, i) ==
    LET l == ExpressionList(t, i)
        x == Rule("Expression", t, i)
    IN  IF l.ok THEN Res(l.pos, l.acts \o <<Tok("Projections", sp(t, x.pos), l.pos)>>)
        ELSE NoMatch

Projections(t, i) ==
    LET l == ExpressionList(t, i)
    IN  IF l.ok THEN Res(l.pos, l.acts \o <<Tok("Projections", i, l.pos)>>)
        ELSE NoMatch

EmitProjections(t, i) ==
    LET e == Emitter(t, i)
        o == LitS(t, sp(t, e.pos), <<"(">>)
        p == Rule("Projections", t, o)
        c == LitS(t, p.pos, <<")">>)
    IN  IF e.ok /\ o # Miss /\ p.ok /\ c # Miss
        THEN Res(c, e.acts \o p.acts \o <<Tok("EmitProjections", 0, 0)>>)
        ELSE NoMatch

\* (',' sp Relation)*
RECURSIVE RelationTail(_, _)
RelationTail(t, i) ==
    LET c == LitS(t, i, <<",">>)
        x == Relation(t, sp(t, c))
        r == RelationTail(t, x.pos)
    IN  IF c # Miss /\ x.ok THEN Res(r.pos, x.acts \o r.acts) ELSE Res(i, <<>>)

Relations(t, i) ==
    LET x == Relation(t, i)
        r == RelationTail(t, sp(t, x.pos))
    IN  IF x.ok THEN Res(r.pos, x.acts \o r.acts) ELSE NoMatch

Range(t, i) ==
    LET n == NumericLiteral(t, i)
        u == RangeUnit(t, sp(t, n.pos))
    IN  IF n.ok /\ u.ok THEN Res(u.pos, n.acts \o u.acts \o <<Tok("Range", 0, 0)>>)
        ELSE NoMatch

\* The clause's action reading a span that starts one character early when
\* the clause is absent.
OptionalClause_EarlySpan(name, i, r) ==
    IF r.ok THEN Res(r.pos, r.acts \o <<Tok(name, i, r.pos)>>)
    ELSE Res(i, <<Tok(name, i - 1, i)>>)

\* The clause's action placed inside the optional group: no action when the
\* clause is absent.
OptionalClause_ActionInside(name, i, r) ==
    IF r.ok THEN Res(r.pos, r.acts \o <<Tok(name, i, r.pos)>>)
    ELSE Res(i, <<>>)

\* An optional clause  < ( ... )? > { action }: the action runs over the
\* clause's span when the clause body r matched, over [i, i) when not.
OptionalClause(name, i, r) ==
    IF r.ok THEN Res(r.pos, r.acts \o <<Tok(name, i, r.pos)>>)
    ELSE Res(i, <<Tok(name, i, i)>>)

\* "FROM" sp Relations sp '[' sp "RANGE" sp Range sp ']'
WindowedFromBody(t, i) ==
    LET f == LitI(t, i, <<"F","R","O","M">>)
        r == Rule("Relations", t, sp(t, f))
        o == LitS(t, sp(t, r.pos), <<"[">>)
        k == LitI(t, sp(t, o), <<"R","A","N","G","E">>)
        g == Rule("Range", t, sp(t, k))
        c == LitS(t, sp(t, g.pos), <<"]">>)
    IN  IF f # Miss /\ r.ok /\ o # Miss /\ k # Miss /\ g.ok /\ c # Miss
        THEN Res(c, r.acts \o g.acts)
        ELSE NoMatch

WindowedFrom(t, i) == OptionalClause("WindowedFrom", i, WindowedFromBody(t, i))

\* "FROM" sp Relations
FromBody(t, i) ==
    LET f == LitI(t, i, <<"F","R","O","M">>)
        r == Rule("Relations", t, sp(t, f))
    IN  IF f # Miss /\ r.ok THEN r ELSE NoMatch

\* From with the body of WindowedFrom.
From_Windowed(t, i) == OptionalClause("From", i, WindowedFromBody(t, i))

From(t, i) == OptionalClause("From", i, FromBody(t, i))

\* "WHERE" sp Expression
FilterBody(t, i) ==
    LET w == LitI(t, i, <<"W","H","E","R","E">>)
        x == Rule("Expression", t, sp(t, w))
    IN  IF w # Miss /\ x.ok THEN x ELSE NoMatch

Filter(t, i) == OptionalClause("Filter", i, FilterBody(t, i))

GroupList(t, i) == ExpressionList(t, i)

\* "GROUP" sp "BY" sp GroupList
GroupingBody(t, i) ==
    LET g == LitI(t, i, <<"G","R","O","U","P">>)
        b == LitI(t, sp(t, g), <<"B","Y">>)
        l == Rule("GroupList", t, sp(t, b))
    IN  IF g # Miss /\ b # Miss /\ l.ok THEN l ELSE NoMatch

Grouping(t, i) == OptionalClause("Grouping", i, GroupingBody(t, i))

\* "HAVING" sp Expression
HavingBody(t, i) ==
    LET h == LitI(t, i, <<"H","A","V","I","N","G">>)
        x == Rule("Expression", t, sp(t, h))
    IN  IF h # Miss /\ x.ok THEN x ELSE NoMatch

Having(t, i) == OptionalClause("Having", i, HavingBody(t, i))

SourceSinkParam(t, i) ==
    LET k == SourceSinkParamKey(t, i)
        e == LitS(t, k.pos, <<"=">>)
        v == SourceSinkParamVal(t, e)
    IN  IF k.ok /\ e # Miss /\ v.ok
        THEN Res(v.pos, k.acts \o v.acts \o <<Tok("SourceSinkParam", 0, 0)>>)
        ELSE NoMatch

\* (',' sp SourceSinkParam)*
RECURSIVE SourceSinkParamTail(_, _)
SourceSinkParamTail(t, i) ==
    LET c == LitS(t, i, <<",">>)
        x == Rule("SourceSinkParam", t, sp(t, c))
        r == SourceSinkParamTail(t, x.pos)
    IN  IF c # Miss /\ x.ok THEN Res(r.pos, x.acts \o r.acts) ELSE Res(i, <<>>)

\* "WITH" sp SourceSinkParam sp (',' sp SourceSinkParam)*
SourceSinkSpecsBody(t, i) ==
    LET w == LitI(t, i, <<"W","I","T","H">>)
        x == Rule("SourceSinkParam", t, sp(t, w))
        r == SourceSinkParamTail(t, sp(t, x.pos))
    IN  IF w # Miss /\ x.ok THEN Res(r.pos, x.acts \o r.acts) ELSE NoMatch

SourceSinkSpecs(t, i) ==
    OptionalClause("SourceSinkSpecs", i, SourceSinkSpecsBody(t, i))

(***************************************************************************)
(* Main statements.                                                        *)
(***************************************************************************)
\* Projections sp From sp Filter sp Grouping sp Having sp, after the
\* projections p; the four clauses are optional and always match.
SelectClauses(t, p, from) ==
    LET f == Rule(from, t, sp(t, p.pos))
        w == Rule("Filter", t, sp(t, f.pos))
        g == Rule("Grouping", t, sp(t, w.pos))
        h == Rule("Having", t, sp(t, g.pos))
    IN  IF f.ok /\ w.ok /\ g.ok /\ h.ok
        THEN Res(sp(t, h.pos), p.acts \o f.acts \o w.acts \o g.acts \o h.acts)
        ELSE NoMatch

\* SelectStmt without its action.
SelectStmt_NoAction(t, i) ==
    LET s == LitI(t, i, <<"S","E","L","E","C","T">>)
        p == Rule("Projections", t, sp(t, s))
        c == SelectClauses(t, p, "From")
    IN  IF s # Miss /\ p.ok THEN Res(c.pos, c.acts) ELSE NoMatch

SelectStmt(t, i) ==
    LET s == LitI(t, i, <<"S","E","L","E","C","T">>)
        p == Rule("Projections", t, sp(t, s))
        c == SelectClauses(t, p, "From")
    IN  IF s # Miss /\ p.ok
        THEN Res(c.pos, c.acts \o <<Tok("SelectStmt", 0, 0)>>)
        ELSE NoMatch

CreateStreamAsSelectStmt(t, i) ==
    LET c == LitI(t, i, <<"C","R","E","A","T","E">>)
        s == LitI(t, sp(t, c), <<"S","T","R","E","A","M">>)
        r == Relation(t, sp(t, s))
        a == LitI(t, sp(t, r.pos), <<"A","S">>)
        k == LitI(t, sp(t, a), <<"S","E","L","E","C","T">>)
        p == Rule("EmitProjections", t, sp(t, k))
        l == SelectClauses(t, p, "WindowedFrom")
    IN  IF c # Miss /\ s # Miss /\ r.ok /\ a # Miss /\ k # Miss /\ p.ok
        THEN Res(l.pos, r.acts \o l.acts \o <<Tok("CreateStreamAsSelectStmt", 0, 0)>>)
        ELSE NoMatch

\* "CREATE" sp kind sp SourceSinkName sp "TYPE" sp SourceSinkType sp
\* SourceSinkSpecs
CreateSourceSink(name, kind, t, i) ==
    LET c == LitI(t, i, <<"C","R","E","A","T","E">>)
        s == LitI(t, sp(t, c), kind)
        n == SourceSinkName(t, sp(t, s))
        y == LitI(t, sp(t, n.pos), <<"T","Y","P","E">>)
        u == SourceSinkType(t, sp(t, y))
        w == Rule("SourceSinkSpecs", t, sp(t, u.pos))
    IN  IF c # Miss /\ s # Miss /\ n.ok /\ y # Miss /\ u.ok
        THEN Res(w.pos, n.acts \o u.acts \o w.acts \o <<Tok(name, 0, 0)>>)
        ELSE NoMatch

CreateSourceStmt(t, i) == CreateSourceSink("CreateSourceStmt", <<"S","O","U","R","C","E">>, t, i)

CreateSinkStmt(t, i) == CreateSourceSink("CreateSinkStmt", <<"S","I","N","K">>, t, i)

CreateStreamFromSourceStmt(t, i) ==
    LET c == LitI(t, i, <<"C","R","E","A","T","E">>)
        s == LitI(t, sp(t, c), <<"S","T","R","E","A","M">>)
        r == Relation(t, sp(t, s))
        f == LitI(t, sp(t, r.pos), <<"F","R","O","M">>)
        o == LitI(t, sp(t, f), <<"S","O","U","R","C","E">>)
        n == SourceSinkName(t, sp(t, o))
    IN  IF c # Miss /\ s # Miss /\ r.ok /\ f # Miss /\ o # Miss /\ n.ok
        THEN Res(n.pos, r.acts \o n.acts \o <<Tok("CreateStreamFromSourceStmt", 0, 0)>>)
        ELSE NoMatch

CreateStreamFromSourceExtStmt(t, i) ==
    LET c == LitI(t, i, <<"C","R","E","A","T","E">>)
        s == LitI(t, sp(t, c), <<"S","T","R","E","A","M">>)
        r == Relation(t, sp(t, s))
        f == LitI(t, sp(t, r.pos), <<"F","R","O","M">>)
        y == SourceSinkType(t, sp(t, f))
        o == LitI(t, sp(t, y.pos), <<"S","O","U","R","C","E">>)
        w == Rule("SourceSinkSpecs", t, sp(t, o))
    IN  IF c # Miss /\ s # Miss /\ r.ok /\ f # Miss /\ y.ok /\ o # Miss
        THEN Res(w.pos, r.acts \o y.acts \o w.acts
                        \o <<Tok("CreateStreamFromSourceExtStmt", 0, 0)>>)
        ELSE NoMatch

InsertIntoSelectStmt(t, i) ==
    LET n == LitI(t, i, <<"I","N","S","E","R","T">>)
        o == LitI(t, sp(t, n), <<"I","N","T","O">>)
        k == SourceSinkName(t, sp(t, o))
        s == Rule("SelectStmt", t, sp(t, k.pos))
    IN  IF n # Miss /\ o # Miss /\ k.ok /\ s.ok
        THEN Res(s.pos, k.acts \o s.acts \o <<Tok("InsertIntoSelectStmt", 0, 0)>>)
        ELSE NoMatch


\* The statement alternatives, in the order the grammar tries them.
AnyStatement(t, i) ==
    FirstOf(<<Rule("SelectStmt", t, i), Rule("CreateStreamAsSelectStmt", t, i),
              Rule("CreateSourceStmt", t, i), Rule("CreateStreamFromSourceStmt", t, i),
              Rule("CreateStreamFromSourceExtStmt", t, i), Rule("CreateSinkStmt", t, i),
              Rule("InsertIntoSelectStmt", t, i)>>)

\* Statement without the end-of-input check.
Statement_NoEndCheck(t, i) == Rule("AnyStatement", t, i)

\* Statement <- ( ... ) !.
Statement(t, i) ==
    LET s == Rule("AnyStatement", t, i)
    IN  IF s.ok /\ s.pos = Len(t) THEN s ELSE NoMatch

\* A reference to a rule by name.
Rule(name, t, i) ==
    CASE name = "Expression" -> Expression(t, i)
      [] name = "FuncParams" -> FuncParams(t, i)
      [] name = "FuncApp" -> FuncApp(t, i)
      [] name = "baseExpr" -> baseExpr(t, i)
      [] name = "productExpr" -> productExpr(t, i)
      [] name = "termExpr" -> termExpr(t, i)
      [] name = "comparisonExpr" -> comparisonExpr(t, i)
      [] name = "andExpr" -> andExpr(t, i)
      [] name = "orExpr" -> orExpr(t, i)
      [] name = "Projections" -> Projections(t, i)
      [] name = "EmitProjections" -> EmitProjections(t, i)
      [] name = "Relations" -> Relations(t, i)
      [] name = "Range" -> Range(t, i)
      [] name = "WindowedFrom" -> WindowedFrom(t, i)
      [] name = "From" -> From(t, i)
      [] name = "Filter" -> Filter(t, i)
      [] name = "Grouping" -> Grouping(t, i)
      [] name = "Having" -> Having(t, i)
      [] name = "GroupList" -> GroupList(t, i)
      [] name = "SourceSinkParam" -> SourceSinkParam(t, i)
      [] name = "SourceSinkSpecs" -> SourceSinkSpecs(t, i)
      [] name = "SelectStmt" -> SelectStmt(t, i)
      [] name = "CreateStreamAsSelectStmt" -> CreateStreamAsSelectStmt(t, i)
      [] name = "CreateSourceStmt" -> CreateSourceStmt(t, i)
      [] name = "CreateSinkStmt" -> CreateSinkStmt(t, i)
      [] name = "CreateStreamFromSourceStmt" -> CreateStreamFromSourceStmt(t, i)
      [] name = "CreateStreamFromSourceExtStmt" -> CreateStreamFromSourceExtStmt(t, i)
      [] name = "InsertIntoSelectStmt" -> InsertIntoSelectStmt(t, i)
      [] name = "AnyStatement" -> AnyStatement(t, i)
      [] name = "Statement" -> Statement(t, i)

\* Parse of the whole text: the token list of Statement, or a syntax error.
Parse(t) == Rule("Statement", t, 0)


(***************************************************************************)
(* AST payloads.  Every payload is a record with a kind; leaves carry the  *)
(* matched text or the tag, composites carry their parts in order.         *)
(***************************************************************************)
Leaf(k, v) == [kind |-> k, val |-> v]
Raw(v) == Leaf("Raw", v)
Operator(v) == Leaf("Operator", v)
BinaryOpAST(op, l, r) == [kind |-> "BinaryOpAST", Op |-> op, Left |-> l, Right |-> r]
Clause(k, items) == [kind |-> k, empty |-> (items = <<>>), items |-> items]
Node(k, parts) == [kind |-> k, parts |-> parts]

ExprKinds == {"ColumnName", "NumericLiteral", "FloatLiteral", "StringLiteral",
              "BoolLiteral", "Wildcard", "BinaryOpAST", "FuncAppAST"}
IsExpression(c) == c.kind \in ExprKinds
IsOperator(c) == c.kind = "Operator"

\* The payload a leaf rule's action pushes for the matched text substr.
LeafPayload ==
    [Relation |-> "Relation", ColumnName |-> "ColumnName",
     NumericLiteral |-> "NumericLiteral", FloatLiteral |-> "FloatLiteral",
     Function |-> "FuncName", StringLiteral |-> "StringLiteral",
     SourceSinkName |-> "SourceSinkName", SourceSinkType |-> "SourceSinkType",
     SourceSinkParamKey |-> "SourceSinkParamKey",
     SourceSinkParamVal |-> "SourceSinkParamVal"]
TagPayload ==
    [TRUE_ |-> Leaf("BoolLiteral", "true"), FALSE_ |-> Leaf("BoolLiteral", "false"),
     Wildcard |-> Leaf("Wildcard", "*"),
     ISTREAM |-> Leaf("Emitter", "Istream"), DSTREAM |-> Leaf("Emitter", "Dstream"),
     RSTREAM |-> Leaf("Emitter", "Rstream"),
     TUPLES |-> Leaf("RangeUnit", "Tuples"), SECONDS |-> Leaf("RangeUnit", "Seconds"),
     Or |-> Operator("Or"), And |-> Operator("And"), Equal |-> Operator("Equal"),
     Less |-> Operator("Less"), LessOrEqual |-> Operator("LessOrEqual"),
     Greater |-> Operator("Greater"), GreaterOrEqual |-> Operator("GreaterOrEqual"),
     NotEqual |-> Operator("NotEqual"), Plus |-> Operator("Plus"),
     Minus |-> Operator("Minus"), Multiply |-> Operator("Multiply"),
     Divide |-> Operator("Divide"), Modulo |-> Operator("Modulo")]
LeafRules == DOMAIN LeafPayload \cup DOMAIN TagPayload

Payload(rule, substr) ==
    IF rule \in DOMAIN TagPayload THEN TagPayload[rule]
    ELSE Leaf(LeafPayload[rule], substr)

(***************************************************************************)
(* The parse stack: a sequence of fragments, bottom first.                 *)
(***************************************************************************)
Frag(b, e, c) == [begin |-> b, end |-> e, comp |-> c]
Out(s, p, n) == [stack |-> s, panic |-> p, found |-> n]

PushComponent(s, b, e, c) == Append(s, Frag(b, e, c))

\* A fragment lies within [b, e): it starts at or after b, stops at or
\* before e, and reaches into the span (a zero-length fragment sitting at b,
\* and any fragment that merely ends at b, are outside).
Within(f, b, e) == b <= f.begin /\ f.end <= e /\ b < f.end

\* The number of topmost fragments that lie within [b, e).
TopCount(s, b, e) ==
    CHOOSE n \in 0..Len(s) :
        /\ \A j \in (Len(s) - n + 1)..Len(s) : Within(s[j], b, e)
        /\ n < Len(s) => ~Within(s[Len(s) - n], b, e)

\* At most one fragment popped: the topmost, when it is within [b, e).
collectElements_OnePop(s, b, e) ==
    LET n == IF TopCount(s, b, e) > 0 THEN 1 ELSE 0
    IN  [rest |-> SubSeq(s, 1, Len(s) - n),
         elems |-> [k \in 1..n |-> s[Len(s) - n + k].comp]]

\* Pops the fragments within [b, e) and returns their payloads, first
\* pushed first.
collectElements(s, b, e) ==
    LET n == TopCount(s, b, e)
    IN  [rest |-> SubSeq(s, 1, Len(s) - n),
         elems |-> [k \in 1..n |-> s[Len(s) - n + k].comp]]

\* The operands taken in pop order: the last pushed becomes Left.
AssembleBinaryOperation_Swapped(s, b, e) ==
    LET c == collectElements(s, b, e)
        n == Len(c.elems)
    IN  IF n = 1
        THEN Out(PushComponent(c.rest, b, e, c.elems[1]), FALSE, n)
        ELSE IF n = 3 /\ IsExpression(c.elems[1]) /\ IsOperator(c.elems[2]) /\ IsExpression(c.elems[3])
        THEN Out(PushComponent(c.rest, b, e, BinaryOpAST(c.elems[2], c.elems[3], c.elems[1])), FALSE, n)
        ELSE Out(s, TRUE, n)

\* A single fragment left on the stack as it is, under its own span.
AssembleBinaryOperation_Untouched(s, b, e) ==
    LET c == collectElements(s, b, e)
        n == Len(c.elems)
    IN  IF n = 1
        THEN Out(s, FALSE, n)
        ELSE IF n = 3 /\ IsExpression(c.elems[1]) /\ IsOperator(c.elems[2]) /\ IsExpression(c.elems[3])
        THEN Out(PushComponent(c.rest, b, e, BinaryOpAST(c.elems[2], c.elems[1], c.elems[3])), FALSE, n)
        ELSE Out(s, TRUE, n)

\* More than three fragments accepted, the first three used.
AssembleBinaryOperation_AtLeastThree(s, b, e) ==
    LET c == collectElements(s, b, e)
        n == Len(c.elems)
    IN  IF n = 1
        THEN Out(PushComponent(c.rest, b, e, c.elems[1]), FALSE, n)
        ELSE IF n >= 3 /\ IsExpression(c.elems[1]) /\ IsOperator(c.elems[2]) /\ IsExpression(c.elems[3])
        THEN Out(PushComponent(c.rest, b, e, BinaryOpAST(c.elems[2], c.elems[1], c.elems[3])), FALSE, n)
        ELSE Out(s, TRUE, n)

\* The middle fragment not checked to be an operator.
AssembleBinaryOperation_AnyMiddle(s, b, e) ==
    LET c == collectElements(s, b, e)
        n == Len(c.elems)
    IN  IF n = 1
        THEN Out(PushComponent(c.rest, b, e, c.elems[1]), FALSE, n)
        ELSE IF n = 3 /\ IsExpression(c.elems[1]) /\ IsExpression(c.elems[3])
        THEN Out(PushComponent(c.rest, b, e, BinaryOpAST(c.elems[2], c.elems[1], c.elems[3])), FALSE, n)
        ELSE Out(s, TRUE, n)

\* or / and / comparison / term / product
AssembleBinaryOperation(s, b, e) ==
    LET c == collectElements(s, b, e)
        n == Len(c.elems)
    IN  IF n = 1
        THEN Out(PushComponent(c.rest, b, e, c.elems[1]), FALSE, n)
        ELSE IF /\ n = 3
                /\ IsExpression(c.elems[1])
                /\ IsOperator(c.elems[2])
                /\ IsExpression(c.elems[3])
        THEN Out(PushComponent(c.rest, b, e,
                     BinaryOpAST(c.elems[2], c.elems[1], c.elems[3])),
                 FALSE, n)
        ELSE Out(s, TRUE, n)

\* Optional clause and list reductions over a span: zero fragments give the
\* empty marker, otherwise the fragments become the node's items.
AssembleList(s, b, e, kind, itemKinds, single) ==
    LET c == collectElements(s, b, e)
        n == Len(c.elems)
    IN  IF (single => n <= 1) /\ \A k \in 1..n : c.elems[k].kind \in itemKinds
        THEN Out(PushComponent(c.rest, b, e, Clause(kind, c.elems)), FALSE, n)
        ELSE Out(s, TRUE, n)

IsRelation(c) == c.kind = "Relation"

AssembleProjections(s, b, e) == AssembleList(s, b, e, "ProjectionsAST", ExprKinds, FALSE)
AssembleExpressions(s, b, e) == AssembleList(s, b, e, "ExpressionsAST", ExprKinds, FALSE)
AssembleFrom(s, b, e) == AssembleList(s, b, e, "FromAST", {"Relation"}, FALSE)
AssembleFilter(s, b, e) == AssembleList(s, b, e, "FilterAST", ExprKinds, TRUE)
AssembleGrouping(s, b, e) == AssembleList(s, b, e, "GroupingAST", ExprKinds, FALSE)
AssembleHaving(s, b, e) == AssembleList(s, b, e, "HavingAST", ExprKinds, TRUE)
AssembleSourceSinkSpecs(s, b, e) == AssembleList(s, b, e, "SourceSinkSpecsAST", {"SourceSinkParamAST"}, FALSE)

\* FROM rel, ... [RANGE n unit]: the relations, then the range.
AssembleWindowedFrom(s, b, e) ==
    LET c == collectElements(s, b, e)
        n == Len(c.elems)
    IN  IF n = 0
        THEN Out(PushComponent(c.rest, b, e, Clause("WindowedFromAST", <<>>)),
                 FALSE, n)
        ELSE IF /\ n >= 2
                /\ c.elems[n].kind = "RangeAST"
                /\ \A k \in 1..(n - 1) : IsRelation(c.elems[k])
        THEN Out(PushComponent(c.rest, b, e, Clause("WindowedFromAST", c.elems)),
                 FALSE, n)
        ELSE Out(s, TRUE, n)

\* Fixed-arity reductions take no span: they pop one fragment per declared
\* part and push the node over the parts' hull.
AssembleFixed(s, kind, partKinds) ==
    LET n == Len(partKinds)
        base == Len(s) - n
    IN  IF /\ n <= Len(s)
           /\ \A k \in 1..n : s[base + k].comp.kind = partKinds[k]
        THEN Out(PushComponent(SubSeq(s, 1, base), s[base + 1].begin, s[Len(s)].end,
                     Node(kind, [k \in 1..n |-> s[base + k].comp])),
                 FALSE, n)
        ELSE Out(s, TRUE, IF n <= Len(s) THEN n ELSE Len(s))

AssembleRange(s) == AssembleFixed(s, "RangeAST", <<"NumericLiteral", "RangeUnit">>)
AssembleFuncApp(s) == AssembleFixed(s, "FuncAppAST", <<"FuncName", "ExpressionsAST">>)
AssembleSourceSinkParam(s) ==
    AssembleFixed(s, "SourceSinkParamAST", <<"SourceSinkParamKey", "SourceSinkParamVal">>)
AssembleEmitProjections(s) ==
    AssembleFixed(s, "EmitProjectionsAST", <<"Emitter", "ProjectionsAST">>)
AssembleSelect(s) ==
    AssembleFixed(s, "SelectStmt",
        <<"ProjectionsAST", "FromAST", "FilterAST", "GroupingAST", "HavingAST">>)
AssembleCreateStreamAsSelect(s) ==
    AssembleFixed(s, "CreateStreamAsSelectStmt",
        <<"Relation", "EmitProjectionsAST", "WindowedFromAST", "FilterAST",
          "GroupingAST", "HavingAST">>)
AssembleCreateSource(s) ==
    AssembleFixed(s, "CreateSourceStmt",
        <<"SourceSinkName", "SourceSinkType", "SourceSinkSpecsAST">>)
AssembleCreateSink(s) ==
    AssembleFixed(s, "CreateSinkStmt",
        <<"SourceSinkName", "SourceSinkType", "SourceSinkSpecsAST">>)
AssembleCreateStreamFromSource(s) ==
    AssembleFixed(s, "CreateStreamFromSourceStmt", <<"Relation", "SourceSinkName">>)
AssembleCreateStreamFromSourceExt(s) ==
    AssembleFixed(s, "CreateStreamFromSourceExtStmt",
        <<"Relation", "SourceSinkType", "SourceSinkSpecsAST">>)
AssembleInsertIntoSelect(s) ==
    AssembleFixed(s, "InsertIntoSelectStmt", <<"SourceSinkName", "SelectStmt">>)

(***************************************************************************)
(* Inputs.  The texts handed to the parser: the statements below, and      *)
(* every sequence of at most MaxTokens tokens placed in expression         *)
(* position of a statement frame.                                          *)
(***************************************************************************)
MaxTokens == 3

FixedTexts ==
    {<<"S","E","L","E","C","T"," ","a"," ","W","H","E","R","E"," ","b">>,
     <<"C","R","E","A","T","E"," ","S","O","U","R","C","E"," ","S","r","c"," ","T","Y","P","E"," ","T","y"," ","W","I","T","H"," ","K","e","y","=","v">>,
     <<"S","E","L","E","C","T"," ","F","(","A",")">>,
     <<"S","E","L","E","C","T"," ","_","a"," ","F","R","O","M"," ","s">>,
     <<"S","E","L","E","C","T"," ","A","b","_","1"," ","F","R","O","M"," ","S">>,
     <<"S","E","L","E","C","T"," ","t","r","u","e","x"," ","F","R","O","M"," ","s">>,
     <<"C","R","E","A","T","E"," ","S","T","R","E","A","M"," ","x"," ","A","S"," ","S","E","L","E","C","T"," ","I","S","T","R","E","A","M","(","a",")">>,
     <<"C","R","E","A","T","E"," ","S","T","R","E","A","M"," ","x"," ","A","S"," ","S","E","L","E","C","T"," ","I","S","T","R","E","A","M","(","a",")"," ","F","R","O","M"," ","s">>,
     <<"S","E","L","E","C","T"," ","a"," ","F","R","O","M"," ","s"," ","[","R","A","N","G","E"," ","5"," ","T","U","P","L","E","S","]">>,
     <<"S","E","L","E","C","T"," ","a"," ","F","R","O","M"," ","s">>,
     <<"C","R","E","A","T","E"," ","S","T","R","E","A","M"," ","x"," ","A","S"," ","S","E","L","E","C","T"," ","R","S","T","R","E","A","M","(","a",")"," ","F","R","O","M"," ","s",","," ","t"," ","[","R","A","N","G","E"," ","2"," ","S","E","C","O","N","D","S","]">>,
     <<"C","R","E","A","T","E"," ","S","T","R","E","A","M"," ","x"," ","A","S"," ","S","E","L","E","C","T"," ","I","S","T","R","E","A","M","(","a",")"," ","F","R","O","M"," ","s"," ","[","R","A","N","G","E"," ","5"," ","T","U","P","L","E","S","]">>,
     <<"S","E","L","E","C","T"," ","(","a"," ","+"," ","b",")"," ","+"," ","c">>,
     <<"S","E","L","E","C","T"," ","a"," ","O","R"," ","b"," ","O","R"," ","c">>,
     <<"S","E","L","E","C","T"," ","a"," ","+"," ","b"," ","+"," ","c">>,
     <<"S","E","L","E","C","T"," ","a",","," ","a"," ","F","R","O","M"," ","s",","," ","s"," ","G","R","O","U","P"," ","B","Y"," ","b",","," ","b">>,
     <<"S","E","L","E","C","T"," ","a",","," ","b",","," ","c"," ","F","R","O","M"," ","s">>,
     <<"S","E","L","E","C","T"," ","*"," ","F","R","O","M"," ","s">>,
     <<"s","e","l","e","c","t"," ","a",","," ","b",","," ","c"," ","f","r","o","m"," ","s">>,
     <<"S","E","L","E","C","T"," ","*"," ","F","R","O","M"," ","s",";",";">>,
     <<"S","E","L","E","C","T"," ","f","(","a",","," ","3",".","1","4",")"," ","F","R","O","M"," ","s",","," ","t"," ","W","H","E","R","E"," ","'","x","'"," ","G","R","O","U","P"," ","B","Y"," ","a",","," ","b"," ","H","A","V","I","N","G"," ","t","r","u","e">>,
     <<"C","R","E","A","T","E"," ","S","T","R","E","A","M"," ","x"," ","A","S"," ","S","E","L","E","C","T"," ","I","S","T","R","E","A","M","(","a",")"," ","F","R","O","M"," ","s"," ","[","R","A","N","G","E"," ","5"," ","T","U","P","L","E","S","]"," ","W","H","E","R","E"," ","f","a","l","s","e">>,
     <<"C","R","E","A","T","E"," ","S","T","R","E","A","M"," ","x"," ","A","S"," ","S","E","L","E","C","T"," ","D","S","T","R","E","A","M","(","a",")"," ","F","R","O","M"," ","s"," ","[","R","A","N","G","E"," ","2"," ","S","E","C","O","N","D","S","]">>,
     <<"C","R","E","A","T","E"," ","S","O","U","R","C","E"," ","x"," ","T","Y","P","E"," ","y">>,
     <<"C","R","E","A","T","E"," ","S","O","U","R","C","E"," ","x"," ","T","Y","P","E"," ","y"," ","W","I","T","H"," ","k","=","v",","," ","k","2","=","3">>,
     <<"C","R","E","A","T","E"," ","S","I","N","K"," ","x"," ","T","Y","P","E"," ","y"," ","W","I","T","H"," ","k","=","v">>,
     <<"C","R","E","A","T","E"," ","S","T","R","E","A","M"," ","x"," ","F","R","O","M"," ","S","O","U","R","C","E"," ","y">>,
     <<"C","R","E","A","T","E"," ","S","T","R","E","A","M"," ","x"," ","F","R","O","M"," ","y"," ","S","O","U","R","C","E"," ","W","I","T","H"," ","k","=","v">>,
     <<"I","N","S","E","R","T"," ","I","N","T","O"," ","x"," ","S","E","L","E","C","T"," ","a"," ","F","R","O","M"," ","s">>,
     <<"S","E","L","E","C","T"," ","a"," ","+"," ","3"," ","="," ","b"," ","O","R"," ","a"," ","="," ","b"," ","A","N","D"," ","b"," ",">"," ","0"," ","F","R","O","M"," ","s">>,
     <<"S","E","L","E","C","T"," ","f","(","a",","," ","(","b"," ","+"," ","3",")",")"," ","F","R","O","M"," ","s"," ","W","H","E","R","E"," ","(","a",")">>,
     <<"S","E","L","E","C","T"," ","a"," ","-"," ","1"," ","/"," ","b"," ","<"," ","3"," ","%"," ","2",","," ","a"," ","<","="," ","b",","," ","a"," ",">"," ","b",","," ","a"," ",">","="," ","b",","," ","a"," ","!","="," ","b",","," ","a"," ","<",">"," ","b">>}

Frames ==
    {[pre |-> <<"S","E","L","E","C","T"," ">>,
      post |-> <<>>],
     [pre |-> <<"S","E","L","E","C","T"," ","*"," ","F","R","O","M"," ","s"," ","W","H","E","R","E"," ">>,
      post |-> <<>>],
     [pre |-> <<"S","E","L","E","C","T"," ","a"," ","F","R","O","M"," ","s"," ","G","R","O","U","P"," ","B","Y"," ">>,
      post |-> <<" ","H","A","V","I","N","G"," ","b">>],
     [pre |-> <<"C","R","E","A","T","E"," ","S","T","R","E","A","M"," ","x"," ","A","S"," ","S","E","L","E","C","T"," ","R","S","T","R","E","A","M","(">>,
      post |-> <<")"," ","F","R","O","M"," ","s"," ","[","R","A","N","G","E"," ","5"," ","T","U","P","L","E","S","]">>]}

Vocab ==
    {<<"a">>,
     <<"3",".","1","4">>,
     <<"+">>,
     <<"*">>,
     <<"=">>,
     <<"O","R">>,
     <<"A","N","D">>,
     <<"(">>,
     <<")">>,
     <<",">>}

RECURSIVE Join(_)
Join(ts) == IF ts = <<>> THEN <<>> ELSE Head(ts) \o <<" ">> \o Join(Tail(ts))

TokSeqs == UNION {[1..k -> Vocab] : k \in 0..MaxTokens}

Inputs == FixedTexts \cup {f.pre \o Join(ts) \o f.post : f \in Frames, ts \in TokSeqs}


(***************************************************************************)
(* The parse of one text: Parse builds the token list, Execute runs the    *)
(* actions in order against the parse stack, and the surviving fragment    *)
(* is the result.                                                          *)
(***************************************************************************)
NoAST == [kind |-> "none"]
NoOp == [name |-> "none", begin |-> 0, end |-> 0, found |-> 0,
         pre |-> <<>>, panic |-> FALSE]

Init ==
    /\ text \in Inputs
    /\ acts = <<>>
    /\ pc = 0
    /\ stack = <<>>
    /\ status = "start"
    /\ result = NoAST
    /\ lastOp = NoOp
    /\ NoDecoder

\* The actions of the statement matched so far executed although the parse
\* ended in a syntax error.
ParseStmt_ExecutePrefix ==
    /\ status = "start"
    /\ LET r == Rule("AnyStatement", text, 0)
       IN  IF r.ok
           THEN /\ acts' = r.acts
                /\ status' = "executing"
           ELSE /\ acts' = <<>>
                /\ status' = "syntax_error"
    /\ UNCHANGED <<text, pc, stack, result, lastOp>>
    /\ UNCHANGED decoderVars

\* ParseStmt: a syntax error ends the parse before any action runs.
ParseStmt ==
    /\ status = "start"
    /\ LET r == Parse(text)
       IN  IF r.ok
           THEN /\ acts' = r.acts
                /\ status' = "executing"
           ELSE /\ acts' = <<>>
                /\ status' = "syntax_error"
    /\ UNCHANGED <<text, pc, stack, result, lastOp>>
    /\ UNCHANGED decoderVars

cur == acts[pc + 1]

CanExec(rules) ==
    /\ status = "executing"
    /\ pc < Len(acts)
    /\ cur.rule \in rules

\* One action of Execute: the stack operation o applied under the name.
Apply(name, o) ==
    /\ stack' = o.stack
    /\ status' = IF o.panic THEN "panic" ELSE status
    /\ pc' = pc + 1
    /\ lastOp' = [name |-> name, begin |-> cur.begin, end |-> cur.end,
                  found |-> o.found, pre |-> stack, panic |-> o.panic]
    /\ UNCHANGED <<text, acts, result>>
    /\ UNCHANGED decoderVars

ExecPushComponent ==
    /\ CanExec(LeafRules)
    /\ Apply("PushComponent",
             Out(PushComponent(stack, cur.begin, cur.end,
                     Payload(cur.rule, SubSeq(text, cur.begin + 1, cur.end))),
                 FALSE, 0))

BinaryRules == {"orExpr", "andExpr", "comparisonExpr", "termExpr", "productExpr"}

ExecBinaryOperation ==
    /\ CanExec(BinaryRules)
    /\ Apply("AssembleBinaryOperation",
             AssembleBinaryOperation(stack, cur.begin, cur.end))

ExecProjections ==
    CanExec({"Projections"})
    /\ Apply("AssembleProjections", AssembleProjections(stack, cur.begin, cur.end))

ExecExpressions ==
    CanExec({"FuncParams"})
    /\ Apply("AssembleExpressions", AssembleExpressions(stack, cur.begin, cur.end))

ExecFrom ==
    CanExec({"From"})
    /\ Apply("AssembleFrom", AssembleFrom(stack, cur.begin, cur.end))

ExecWindowedFrom ==
    CanExec({"WindowedFrom"})
    /\ Apply("AssembleWindowedFrom", AssembleWindowedFrom(stack, cur.begin, cur.end))

ExecFilter ==
    CanExec({"Filter"})
    /\ Apply("AssembleFilter", AssembleFilter(stack, cur.begin, cur.end))

ExecGrouping ==
    CanExec({"Grouping"})
    /\ Apply("AssembleGrouping", AssembleGrouping(stack, cur.begin, cur.end))

ExecHaving ==
    CanExec({"Having"})
    /\ Apply("AssembleHaving", AssembleHaving(stack, cur.begin, cur.end))

ExecSourceSinkSpecs ==
    CanExec({"SourceSinkSpecs"})
    /\ Apply("AssembleSourceSinkSpecs",
             AssembleSourceSinkSpecs(stack, cur.begin, cur.end))

ExecRange == CanExec({"Range"}) /\ Apply("AssembleRange", AssembleRange(stack))

ExecFuncApp == CanExec({"FuncApp"}) /\ Apply("AssembleFuncApp", AssembleFuncApp(stack))

ExecSourceSinkParam ==
    CanExec({"SourceSinkParam"})
    /\ Apply("AssembleSourceSinkParam", AssembleSourceSinkParam(stack))

ExecEmitProjections ==
    CanExec({"EmitProjections"})
    /\ Apply("AssembleEmitProjections", AssembleEmitProjections(stack))

ExecSelect == CanExec({"SelectStmt"}) /\ Apply("AssembleSelect", AssembleSelect(stack))

ExecCreateStreamAsSelect ==
    CanExec({"CreateStreamAsSelectStmt"})
    /\ Apply("AssembleCreateStreamAsSelect", AssembleCreateStreamAsSelect(stack))

ExecCreateSource ==
    CanExec({"CreateSourceStmt"})
    /\ Apply("AssembleCreateSource", AssembleCreateSource(stack))

ExecCreateSink ==
    CanExec({"CreateSinkStmt"})
    /\ Apply("AssembleCreateSink", AssembleCreateSink(stack))

ExecCreateStreamFromSource ==
    CanExec({"CreateStreamFromSourceStmt"})
    /\ Apply("AssembleCreateStreamFromSource", AssembleCreateStreamFromSource(stack))

ExecCreateStreamFromSourceExt ==
    CanExec({"CreateStreamFromSourceExtStmt"})
    /\ Apply("AssembleCreateStreamFromSourceExt",
             AssembleCreateStreamFromSourceExt(stack))

ExecInsertIntoSelect ==
    CanExec({"InsertIntoSelectStmt"})
    /\ Apply("AssembleInsertIntoSelect", AssembleInsertIntoSelect(stack))

\* Every action ran: the parse returns the fragment on top of the stack.
Finish ==
    /\ status = "executing"
    /\ pc = Len(acts)
    /\ status' = "done"
    /\ result' = IF stack = <<>> THEN NoAST ELSE stack[Len(stack)].comp
    /\ UNCHANGED <<text, acts, pc, stack, lastOp>>
    /\ UNCHANGED decoderVars

Next ==
    \/ ParseStmt
    \/ ExecPushComponent
    \/ ExecBinaryOperation
    \/ ExecProjections
    \/ ExecExpressions
    \/ ExecFrom
    \/ ExecWindowedFrom
    \/ ExecFilter
    \/ ExecGrouping
    \/ ExecHaving
    \/ ExecSourceSinkSpecs
    \/ ExecRange
    \/ ExecFuncApp
    \/ ExecSourceSinkParam
    \/ ExecEmitProjections
    \/ ExecSelect
    \/ ExecCreateStreamAsSelect
    \/ ExecCreateSource
    \/ ExecCreateSink
    \/ ExecCreateStreamFromSource
    \/ ExecCreateStreamFromSourceExt
    \/ ExecInsertIntoSelect
    \/ Finish

Spec == Init /\ [][Next]_vars


(***************************************************************************)
(* Direct exercise of the parse stack, as TestAssembleBinaryOperation does: *)
(* fragments are pushed in text order and AssembleBinaryOperation is called *)
(* over an arbitrary span.                                                  *)
(***************************************************************************)
MaxPos == 4
MaxDepth == 4

Components == {Raw(<<"P", "R", "E">>), Leaf("ColumnName", <<"a">>),
               Leaf("ColumnName", <<"b">>), TagPayload.Plus}

InitStack ==
    /\ text = <<>>
    /\ acts = <<>>
    /\ pc = 0
    /\ stack = <<>>
    /\ status = "direct"
    /\ result = NoAST
    /\ lastOp = NoOp
    /\ NoDecoder

\* ps.PushComponent(b, e, c), each fragment starting at or after the end of
\* the one below it.
CallPushComponent ==
    /\ status = "direct"
    /\ Len(stack) < MaxDepth
    /\ \E b \in 0..MaxPos, e \in 0..MaxPos, c \in Components :
          /\ b < e
          /\ stack # <<>> => stack[Len(stack)].end <= b
          /\ stack' = PushComponent(stack, b, e, c)
          /\ lastOp' = [name |-> "PushComponent", begin |-> b, end |-> e,
                        found |-> 0, pre |-> stack, panic |-> FALSE]
    /\ UNCHANGED <<text, acts, pc, status, result>>
    /\ UNCHANGED decoderVars

\* ps.AssembleBinaryOperation(b, e); a panic ends the exercise.
CallAssembleBinaryOperation ==
    /\ status = "direct"
    /\ \E b \in 0..MaxPos, e \in 0..MaxPos :
          /\ b < e
          /\ LET o == AssembleBinaryOperation(stack, b, e)
             IN  /\ stack' = o.stack
                 /\ status' = IF o.panic THEN "panic" ELSE status
                 /\ lastOp' = [name |-> "AssembleBinaryOperation",
                               begin |-> b, end |-> e, found |-> o.found,
                               pre |-> stack, panic |-> o.panic]
    /\ UNCHANGED <<text, acts, pc, result>>
    /\ UNCHANGED decoderVars

NextStack == CallPushComponent \/ CallAssembleBinaryOperation

SpecStack == InitStack /\ [][NextStack]_vars

(***************************************************************************)
(* Package data: Decoder.  Strings (Map keys, field names, tags, string    *)
(* values) are sequences of one-character strings.                         *)
(***************************************************************************)
\* data.Value: the type and, under a field named after it, the content.  A
\* float is its integer part and its decimal digits: 3.14 is (3, <<1, 4>>).
BoolValue(b) == [type |-> "TypeBool", b |-> b]
IntValue(n) == [type |-> "TypeInt", i |-> n]
FloatValue(w, ds) == [type |-> "TypeFloat", whole |-> w, frac |-> ds]
StringValue(cs) == [type |-> "TypeString", s |-> cs]
ArrayValue(xs) == [type |-> "TypeArray", a |-> xs]
MapValue(f) == [type |-> "TypeMap", m |-> f]

\* The Map with no entry, and a Map with one more entry.
EmptyMap == [k \in {} |-> IntValue(0)]
WithEntry(f, key, val) == [k \in DOMAIN f \cup {key} |-> IF k = key THEN val ELSE f[k]]

\* Go types of the target (reflect.Type) and their fields.
TBool == [kind |-> "Bool"]
TInt == [kind |-> "Int"]
TFloat64 == [kind |-> "Float64"]
TString == [kind |-> "String"]
TMap(elem) == [kind |-> "Map", elem |-> elem]
TSlice(elem) == [kind |-> "Slice", elem |-> elem]
TPtr(elem) == [kind |-> "Ptr", elem |-> elem]
TStruct(fields) == [kind |-> "Struct", fields |-> fields]
NoTag == [k \in {} |-> <<>>]
Tag(cs) == [bql |-> cs]
Field(name, tag, type) == [Name |-> name, Tag |-> tag, Type |-> type]

\* Go values of the target (reflect.Value).
GoBool(b) == [kind |-> "Bool", b |-> b]
GoInt(n) == [kind |-> "Int", i |-> n]
GoFloat64(w, ds) == [kind |-> "Float64", whole |-> w, frac |-> ds]
GoString(cs) == [kind |-> "String", s |-> cs]
GoNil(k) == [kind |-> k, isNil |-> TRUE]
GoStruct(fs) == [kind |-> "Struct", fields |-> fs]

\* The zero value of a type.
RECURSIVE Zero(_)
Zero(t) ==
    CASE t.kind = "Bool" -> GoBool(FALSE)
      [] t.kind = "Int" -> GoInt(0)
      [] t.kind = "Float64" -> GoFloat64(0, <<>>)
      [] t.kind = "String" -> GoString(<<>>)
      [] t.kind = "Struct" ->
            GoStruct([k \in 1..Len(t.fields) |-> Zero(t.fields[k].Type)])
      [] OTHER -> GoNil(t.kind)

\* The result of a step of decoding: the error (NoError for nil) and the
\* destination as the step leaves it.
NoError == "nil"
Decoded(e, val) == [err |-> e, val |-> val]

\* The strict conversions: the value is of the type asked for.
AsBool(src) == src.type = "TypeBool"
AsInt(src) == src.type = "TypeInt"
AsFloat(src) == src.type = "TypeFloat"
AsString(src) == src.type = "TypeString"
AsMap(src) == src.type = "TypeMap"

\* The lenient conversions ToBool, ToInt, ToFloat and ToString to the Go
\* kind k, for the types of value the decoder is given here: whether the
\* conversion succeeds, and its result.  A string converts to a number when
\* it writes one in decimal digits.
ToValue(k, src) ==
    LET digitList == <<"0","1","2","3","4","5","6","7","8","9">>
        digitOf(c) == (CHOOSE j \in 1..10 : digitList[j] = c) - 1
        isDigits(cs) == cs # <<>> /\ \A j \in 1..Len(cs) : cs[j] \in Digits
        decimal(cs) ==
            LET pow[n \in 0..Len(cs)] == IF n = 0 THEN 1 ELSE 10 * pow[n - 1]
                sum[n \in 0..Len(cs)] ==
                    IF n = 0 THEN 0
                    ELSE sum[n - 1] + digitOf(cs[n]) * pow[Len(cs) - n]
            IN  sum[Len(cs)]
        hasDot == src.type = "TypeString" /\ \E j \in 1..Len(src.s) : src.s[j] = "."
        dot == CHOOSE j \in 1..Len(src.s) : src.s[j] = "."
        intPart == IF hasDot THEN SubSeq(src.s, 1, dot - 1) ELSE src.s
        fracPart == IF hasDot THEN SubSeq(src.s, dot + 1, Len(src.s)) ELSE <<>>
        isInt == src.type = "TypeString" /\ ~hasDot /\ isDigits(src.s)
        isFloat == hasDot /\ isDigits(intPart) /\ isDigits(fracPart)
        one == IF src.b THEN 1 ELSE 0
        zero == src.whole = 0 /\ \A j \in 1..Len(src.frac) : src.frac[j] = 0
        no == [ok |-> FALSE]
        yes(val) == [ok |-> TRUE, val |-> val]
    IN  CASE k = "Bool" /\ src.type = "TypeBool" -> yes(GoBool(src.b))
          [] k = "Bool" /\ src.type = "TypeInt" -> yes(GoBool(src.i # 0))
          [] k = "Bool" /\ src.type = "TypeFloat" -> yes(GoBool(~zero))
          [] k = "Bool" /\ src.type = "TypeString" -> yes(GoBool(src.s # <<>>))
          [] k = "Int" /\ src.type = "TypeBool" -> yes(GoInt(one))
          [] k = "Int" /\ src.type = "TypeInt" -> yes(GoInt(src.i))
          [] k = "Int" /\ src.type = "TypeFloat" -> yes(GoInt(src.whole))
          [] k = "Int" /\ isInt -> yes(GoInt(decimal(src.s)))
          [] k = "Float64" /\ src.type = "TypeBool" -> yes(GoFloat64(one, <<>>))
          [] k = "Float64" /\ src.type = "TypeInt" -> yes(GoFloat64(src.i, <<>>))
          [] k = "Float64" /\ src.type = "TypeFloat" -> yes(GoFloat64(src.whole, src.frac))
          [] k = "Float64" /\ isInt -> yes(GoFloat64(decimal(src.s), <<>>))
          [] k = "Float64" /\ isFloat ->
                yes(GoFloat64(decimal(intPart),
                              [j \in 1..Len(fracPart) |-> digitOf(fracPart[j])]))
          [] k = "String" /\ src.type = "TypeString" -> yes(GoString(src.s))
          [] OTHER -> no

\* decodeBool, decodeInt, decodeFloat, decodeString: on an error the
\* destination is left as it is.
decodeBool(src, old, weaklyTyped) ==
    IF weaklyTyped
    THEN IF ToValue("Bool", src).ok THEN Decoded(NoError, ToValue("Bool", src).val)
         ELSE Decoded("cannot convert to bool", old)
    ELSE IF AsBool(src) THEN Decoded(NoError, GoBool(src.b))
         ELSE Decoded("unsupported cast to bool", old)

\* Without weak typing a float with an integer value is still accepted.
decodeInt(src, old, weaklyTyped) ==
    IF weaklyTyped
    THEN IF ToValue("Int", src).ok THEN Decoded(NoError, ToValue("Int", src).val)
         ELSE Decoded("cannot convert to int", old)
    ELSE IF AsInt(src) THEN Decoded(NoError, GoInt(src.i))
         ELSE IF src.type = "TypeFloat" /\ \A j \in 1..Len(src.frac) : src.frac[j] = 0
              THEN Decoded(NoError, GoInt(src.whole))
         ELSE Decoded("unsupported cast to int", old)

decodeFloat(src, old, weaklyTyped) ==
    IF weaklyTyped
    THEN IF ToValue("Float64", src).ok THEN Decoded(NoError, ToValue("Float64", src).val)
         ELSE Decoded("cannot convert to float", old)
    ELSE IF AsFloat(src) THEN Decoded(NoError, GoFloat64(src.whole, src.frac))
         ELSE Decoded("unsupported cast to float", old)

decodeString(src, old, weaklyTyped) ==
    IF weaklyTyped
    THEN IF ToValue("String", src).ok THEN Decoded(NoError, ToValue("String", src).val)
         ELSE Decoded("cannot convert to string", old)
    ELSE IF AsString(src) THEN Decoded(NoError, GoString(src.s))
         ELSE Decoded("unsupported cast to string", old)

decodeInterface(src, old) == Decoded("not implemented yet", old)

decodeMap(src, old, weaklyTyped) == Decoded("not implemented yet", old)

decodeSlice(src, old, weaklyTyped) ==
    IF src.type # "TypeArray" THEN Decoded("cannot decode to an array", old)
    ELSE Decoded("not implemented yet", old)

\* strings.Split(s, ","): the pieces of s between the commas.
RECURSIVE Split(_)
Split(cs) ==
    IF \E k \in 1..Len(cs) : cs[k] = ","
    THEN LET c == CHOOSE k \in 1..Len(cs) : cs[k] = "," /\ \A j \in 1..(k - 1) : cs[j] # ","
         IN  <<SubSeq(cs, 1, c - 1)>> \o Split(SubSeq(cs, c + 1, Len(cs)))
    ELSE <<cs>>

\* strings.TrimSpace
RECURSIVE TrimSpace(_)
TrimSpace(cs) ==
    IF cs # <<>> /\ cs[1] \in Blank THEN TrimSpace(Tail(cs))
    ELSE IF cs # <<>> /\ cs[Len(cs)] \in Blank THEN TrimSpace(SubSeq(cs, 1, Len(cs) - 1))
    ELSE cs

\* camelcase.Split, with the runs found so far: the text is cut where the
\* class of character changes (lower case, upper case, digit, other).
RECURSIVE ClassRuns(_, _)
ClassRuns(cs, runs) ==
    LET class(c) ==
            IF c \in Letters THEN "lower"
            ELSE IF c \in UpperSet THEN "upper"
            ELSE IF c \in Digits THEN "digit"
            ELSE "other"
    IN  IF cs = <<>> THEN runs
        ELSE IF runs # <<>> /\ class(runs[Len(runs)][1]) = class(cs[1])
        THEN ClassRuns(Tail(cs), [runs EXCEPT ![Len(runs)] = Append(@, cs[1])])
        ELSE ClassRuns(Tail(cs), Append(runs, <<cs[1]>>))

\* Then, from run i on, the last letter of an upper case run followed by a
\* lower case run moves over to that run.
RECURSIVE MoveUpper(_, _)
MoveUpper(runs, i) ==
    IF i >= Len(runs) THEN runs
    ELSE IF runs[i][1] \in UpperSet /\ runs[i + 1][1] \in Letters
    THEN MoveUpper([runs EXCEPT ![i] = SubSeq(@, 1, Len(@) - 1),
                                ![i + 1] = <<runs[i][Len(runs[i])]>> \o @],
                   i + 1)
    ELSE MoveUpper(runs, i + 1)

camelcaseSplit(cs) == SelectSeq(MoveUpper(ClassRuns(cs, <<>>), 1), LAMBDA r : r # <<>>)

\* toSnakeCase: the words in lower case, joined by underscores.
toSnakeCase(name) ==
    LET words == camelcaseSplit(name)
        buf[n \in 0..Len(words)] ==
            IF n = 0 THEN <<>>
            ELSE buf[n - 1] \o (IF n > 1 THEN <<"_">> ELSE <<>>)
                     \o [k \in 1..Len(words[n]) |-> Fold(words[n][k])]
    IN  buf[Len(words)]

\* The key of the Map a field is decoded from: the name in its tag or, when
\* the tag has none, the field's name in snake case.
FieldKey(d, f) ==
    LET tags == Split(IF d.TagName \in DOMAIN f.Tag THEN f.Tag[d.TagName] ELSE <<>>)
        name == TrimSpace(tags[1])
    IN  IF name = <<>> THEN toSnakeCase(f.Name) ELSE name

RECURSIVE decode(_, _, _, _, _)
RECURSIVE decodeStruct(_, _, _, _)
RECURSIVE decodeFields(_, _, _, _, _)

\* The loop of decodeStruct from field i on: a field without an entry is
\* skipped; the first error ends the loop, the fields decoded so far staying
\* set.
decodeFields(d, mp, t, old, i) ==
    IF i > Len(t.fields) THEN Decoded(NoError, old)
    ELSE LET name == FieldKey(d, t.fields[i])
         IN  IF name \notin DOMAIN mp THEN decodeFields(d, mp, t, old, i + 1)
             ELSE LET r == decode(d, mp[name], t.fields[i].Type, old.fields[i], FALSE)
                      new == [old EXCEPT !.fields[i] = r.val]
                  IN  IF r.err # NoError THEN Decoded(r.err, new)
                      ELSE decodeFields(d, mp, t, new, i + 1)

decodeStruct(d, src, t, old) ==
    IF ~AsMap(src) THEN Decoded("struct can only be decoded from a map", old)
    ELSE decodeFields(d, src.m, t, old, 1)

decode(d, src, t, old, weaklyTyped) ==
    CASE t.kind = "Bool" -> decodeBool(src, old, weaklyTyped)
      [] t.kind = "Int" -> decodeInt(src, old, weaklyTyped)
      [] t.kind = "Float64" -> decodeFloat(src, old, weaklyTyped)
      [] t.kind = "String" -> decodeString(src, old, weaklyTyped)
      [] t.kind = "Interface" -> decodeInterface(src, old)
      [] t.kind = "Map" -> decodeMap(src, old, weaklyTyped)
      [] t.kind = "Slice" -> decodeSlice(src, old, weaklyTyped)
      [] t.kind = "Struct" -> decodeStruct(d, src, t, old)
      [] OTHER -> Decoded("decoder doesn't support the type", old)

\* A target v of Decode: its type and, for a pointer, the value it points to.
Target(t, val) == [type |-> t, val |-> val]

\* Decoder.Decode(m, v)
Decode(d, mp, target) ==
    IF target.type.kind # "Ptr"
    THEN Decoded("result must be a pointer to a struct", target.val)
    ELSE IF target.type.elem.kind # "Struct"
    THEN Decoded("result must be pointer to a struct", target.val)
    ELSE decodeStruct(d, MapValue(mp), target.type.elem, target.val)

\* NewDecoder(c)
NilConfig == [isNil |-> TRUE]
DecoderConfig(errorUnused, tagName) ==
    [isNil |-> FALSE, ErrorUnused |-> errorUnused, TagName |-> tagName]
NewDecoder(c) ==
    LET c1 == IF c.isNil THEN DecoderConfig(FALSE, "") ELSE c
    IN  IF c1.TagName = "" THEN [c1 EXCEPT !.TagName = "bql"] ELSE c1

(***************************************************************************)
(* The decoder at work, on the struct of TestDecoder and Maps made of the  *)
(* test's entries and of entries of other types.                           *)
(***************************************************************************)
nested ==
    TStruct(<<Field(<<"X">>, Tag(<<"n","e","s","t","e","d","_","i","n","t">>), TInt),
              Field(<<"Y">>, Tag(<<"n","e","s","t","e","d","_","f","l","o","a","t">>), TFloat64),
              Field(<<"Z">>, Tag(<<"n","e","s","t","e","d","_","s","t","r">>), TString)>>)

TestStruct ==
    TStruct(<<Field(<<"B">>, NoTag, TBool),
              Field(<<"I">>, Tag(<<",","r","e","q","u","i","r","e","d">>), TInt),
              Field(<<"F">>, Tag(<<",","w","e","a","k","l","y","t","y","p","e","d">>), TFloat64),
              Field(<<"S">>, Tag(<<"s","t","r","_","k","e","y">>), TString),
              Field(<<"F","l","o","a","t","M","a","p">>, NoTag, TMap(TFloat64)),
              Field(<<"I","n","t","A","r","r","a","y">>, NoTag, TSlice(TInt)),
              Field(<<"S","t","r","u","c","t">>, Tag(<<"n","e","s","t","e","d">>), nested),
              Field(<<"I","P","t","r">>, NoTag, TPtr(TInt))>>)

Targets ==
    {Target(TPtr(TestStruct), Zero(TestStruct)),
     Target(TestStruct, Zero(TestStruct)),
     Target(TPtr(TInt), Zero(TInt))}

Configs == {NilConfig, DecoderConfig(TRUE, ""), DecoderConfig(FALSE, "bql")}

NestedMap ==
    WithEntry(WithEntry(WithEntry(EmptyMap,
        <<"n","e","s","t","e","d","_","i","n","t">>, IntValue(1)),
        <<"n","e","s","t","e","d","_","f","l","o","a","t">>, FloatValue(2, <<3>>)),
        <<"n","e","s","t","e","d","_","s","t","r">>, StringValue(<<"4">>))

FloatMap ==
    WithEntry(WithEntry(WithEntry(EmptyMap,
        <<"a">>, FloatValue(1, <<2>>)),
        <<"b">>, FloatValue(3, <<4>>)),
        <<"c">>, FloatValue(5, <<6>>))

\* The keys of the test's Map, each with the value the test gives it and
\* values of other types, and a key no field has.
Entries ==
    <<[key |-> <<"b">>, vals |-> {BoolValue(TRUE), IntValue(1)}],
      [key |-> <<"i">>,
       vals |-> {IntValue(10), FloatValue(10, <<0>>), FloatValue(3, <<1, 4>>)}],
      [key |-> <<"f">>,
       vals |-> {FloatValue(3, <<1, 4>>), StringValue(<<"3",".","1","4">>)}],
      [key |-> <<"s","t","r","_","k","e","y">>, vals |-> {StringValue(<<"s","t","r">>)}],
      [key |-> <<"f","l","o","a","t","_","m","a","p">>, vals |-> {MapValue(FloatMap)}],
      [key |-> <<"i","n","t","_","a","r","r","a","y">>,
       vals |-> {ArrayValue(<<IntValue(1), IntValue(2), IntValue(3)>>)}],
      [key |-> <<"n","e","s","t","e","d">>,
       vals |-> {MapValue(NestedMap),
                 MapValue(WithEntry(NestedMap, <<"n","e","s","t","e","d","_","i","n","t">>, StringValue(<<"x">>))),
                 IntValue(1)}],
      [key |-> <<"i","_","p","t","r">>, vals |-> {IntValue(99)}],
      [key |-> <<"o","t","h","e","r">>, vals |-> {IntValue(0)}]>>

\* Every Map that has, for each of the keys, no entry or one of its values.
Maps ==
    LET of[n \in 0..Len(Entries)] ==
            IF n = 0 THEN {EmptyMap}
            ELSE of[n - 1] \cup {WithEntry(f, Entries[n].key, x) :
                                    f \in of[n - 1], x \in Entries[n].vals}
    IN  of[Len(Entries)]

InitDecoder ==
    /\ text = <<>>
    /\ acts = <<>>
    /\ pc = 0
    /\ stack = <<>>
    /\ status = "decoder"
    /\ result = NoAST
    /\ lastOp = NoOp
    /\ config \in Configs
    /\ srcMap \in Maps
    /\ dst \in Targets
    /\ err = NoError
    /\ phase = "new"

\* d := NewDecoder(config)
CallNewDecoder ==
    /\ phase = "new"
    /\ config' = NewDecoder(config)
    /\ phase' = "decoder"
    /\ UNCHANGED <<srcMap, dst, err>>
    /\ UNCHANGED <<text, acts, pc, stack, status, result, lastOp>>

\* err := d.Decode(srcMap, dst)
CallDecode ==
    /\ phase = "decoder"
    /\ LET r == Decode(config, srcMap, dst)
       IN  /\ err' = r.err
           /\ dst' = [dst EXCEPT !.val = r.val]
    /\ phase' = "returned"
    /\ UNCHANGED <<config, srcMap>>
    /\ UNCHANGED <<text, acts, pc, stack, status, result, lastOp>>

NextDecoder == CallNewDecoder \/ CallDecode

SpecDecoder == InitDecoder /\ [][NextDecoder]_vars

(***************************************************************************)
(* Properties.                                                             *)
(***************************************************************************)
\* The last operation was the reduction AssembleBinaryOperation.
LastBinary == lastOp.name = "AssembleBinaryOperation"

\* Positions of the fragments of s whose span lies in [b, e).
Lying(s, b, e) == {j \in 1..Len(s) : b <= s[j].begin /\ s[j].end <= e}

\* The operation found exactly the n topmost fragments in its span.
FoundOnTop(n) ==
    /\ LastBinary
    /\ Len(lastOp.pre) >= n
    /\ Lying(lastOp.pre, lastOp.begin, lastOp.end)
          = (Len(lastOp.pre) - n + 1)..Len(lastOp.pre)

Top(s) == s[Len(s)]
Below(s, n) == SubSeq(s, 1, Len(s) - n)
PreComp(k) == lastOp.pre[Len(lastOp.pre) - k].comp

\* C1: for every text the grammar accepts, no reduction run by the parse
\* raises an internal invariant violation: each finds the count and the
\* payload shape its rule expects.
C1_NoInvariantViolation == status # "panic" /\ ~lastOp.panic

C1_Witness ==
    /\ status = "done"
    /\ result.kind = "SelectStmt"
    /\ lastOp.name = "AssembleSelect"

\* C2: when AssembleBinaryOperation(begin, end) finds exactly three fragments
\* in [begin, end), operand, operator, operand, it replaces them with one
\* fragment spanning [begin, end) whose payload is the binary node with Op the
\* operator, Left the first-pushed and Right the last-pushed operand; the
\* stack is two shorter.
C2_ThreeFragmentsBuildBinaryNode ==
    (/\ FoundOnTop(3)
     /\ IsExpression(PreComp(2)) /\ IsOperator(PreComp(1)) /\ IsExpression(PreComp(0)))
    => /\ ~lastOp.panic
       /\ Len(stack) = Len(lastOp.pre) - 2
       /\ Below(stack, 1) = Below(lastOp.pre, 3)
       /\ Top(stack).begin = lastOp.begin
       /\ Top(stack).end = lastOp.end
       /\ Top(stack).comp.kind = "BinaryOpAST"
       /\ Top(stack).comp.Op = PreComp(1)
       /\ Top(stack).comp.Left = PreComp(2)
       /\ Top(stack).comp.Right = PreComp(0)

\* "a + b" under a PRE fragment, reduced over the span of the three.
C2_Witness ==
    /\ FoundOnTop(3)
    /\ Len(lastOp.pre) = 4
    /\ PreComp(2) = Leaf("ColumnName", <<"a">>)
    /\ PreComp(1) = TagPayload.Plus
    /\ PreComp(0) = Leaf("ColumnName", <<"b">>)
    /\ Len(stack) = 2
    /\ Top(stack).comp.kind = "BinaryOpAST"

C4_WrongCountPanics ==
    (LastBinary /\ Cardinality(Lying(lastOp.pre, lastOp.begin, lastOp.end)) \notin {1, 3})
    => lastOp.panic /\ status = "panic" /\ stack = lastOp.pre

C4_Witness ==
    /\ LastBinary
    /\ Cardinality(Lying(lastOp.pre, lastOp.begin, lastOp.end)) = 4
    /\ PreComp(1) = TagPayload.Plus
    /\ status = "panic"

\* C5: AssembleBinaryOperation(begin, end) panics when it finds exactly three
\* fragments in [begin, end) and the middle one is not an operator.
C5_MiddleNotOperatorPanics ==
    (FoundOnTop(3) /\ ~IsOperator(PreComp(1)))
    => lastOp.panic /\ status = "panic" /\ stack = lastOp.pre

\* Three column names.
C5_Witness ==
    /\ FoundOnTop(3)
    /\ \A k \in 0..2 : PreComp(k).kind = "ColumnName"
    /\ status = "panic"

\* C6: after any sequence of leaf pushes and reductions issued by the grammar
\* during a parse, the fragments on the stack are ordered bottom to top by
\* non-decreasing begin, and no two of them have overlapping spans.
C6_StackOrderedDisjoint ==
    \A j \in 1..Len(stack) : \A k \in (j + 1)..Len(stack) :
        /\ stack[j].begin <= stack[k].begin
        /\ stack[j].end <= stack[k].begin
        /\ stack[j].begin <= stack[j].end

\* An empty-clause marker pushed on top of three fragments, mid-parse.
C6_Witness ==
    /\ status = "executing"
    /\ lastOp.name = "AssembleGrouping"
    /\ lastOp.found = 0
    /\ Len(stack) >= 4

StatementRules ==
    {"SelectStmt", "CreateStreamAsSelectStmt", "CreateSourceStmt", "CreateSinkStmt",
     "CreateStreamFromSourceStmt", "CreateStreamFromSourceExtStmt",
     "InsertIntoSelectStmt"}

\* Every action of an accepted text has run.
Completed == status = "done" \/ (status = "executing" /\ pc = Len(acts))

\* C7: when the Statement rule has completed, for any of the seven statement
\* kinds, the stack holds exactly one fragment, and that fragment is the AST
\* node of the statement (which parse returns).
C7_OneFragmentIsStatement ==
    Completed
    => /\ Len(stack) = 1
       /\ stack[1].comp.kind \in StatementRules
       /\ stack[1].comp.kind = acts[Len(acts)].rule
       /\ status = "done" => result = stack[1].comp

C7_Witness ==
    /\ status = "done"
    /\ Len(stack) = 1
    /\ result.kind = "CreateStreamAsSelectStmt"

\* How many actions of rule r the parse of the text runs.
Runs(r) == Cardinality({k \in 1..Len(acts) : acts[k].rule = r})

ClauseOf ==
    [AssembleFrom |-> "FromAST", AssembleWindowedFrom |-> "WindowedFromAST",
     AssembleFilter |-> "FilterAST", AssembleGrouping |-> "GroupingAST",
     AssembleHaving |-> "HavingAST"]

SelectStarFromS == <<"S","E","L","E","C","T"," ","*"," ","F","R","O","M"," ","s">>

\* C8: every optional-clause reduction of a statement runs exactly once for
\* it, present or absent clause text alike (From, Filter, Grouping, Having in
\* a SELECT, alone or after INSERT INTO; WindowedFrom, Filter, Grouping,
\* Having in CREATE STREAM AS SELECT); with zero fragments in its span it
\* pushes the empty-clause marker; and the AST of "SELECT * FROM s" carries a
\* filter, a grouping and a having node, each marked empty.
C8_OptionalClausesAlwaysRun ==
    /\ (status \in {"executing", "done"}
            /\ acts[Len(acts)].rule \in {"SelectStmt", "InsertIntoSelectStmt"})
       => /\ \A r \in {"From", "Filter", "Grouping", "Having"} : Runs(r) = 1
          /\ Runs("WindowedFrom") = 0
    /\ (status \in {"executing", "done"}
            /\ acts[Len(acts)].rule = "CreateStreamAsSelectStmt")
       => /\ \A r \in {"WindowedFrom", "Filter", "Grouping", "Having"} : Runs(r) = 1
          /\ Runs("From") = 0
    /\ status = "done" => pc = Len(acts)
    /\ (lastOp.name \in DOMAIN ClauseOf /\ lastOp.found = 0)
       => /\ ~lastOp.panic
          /\ Len(stack) = Len(lastOp.pre) + 1
          /\ Below(stack, 1) = lastOp.pre
          /\ Top(stack).comp.kind = ClauseOf[lastOp.name]
          /\ Top(stack).comp.empty
          /\ Top(stack).begin = lastOp.begin /\ Top(stack).end = lastOp.end
    /\ (status = "done" /\ text = SelectStarFromS)
       => /\ result.kind = "SelectStmt"
          /\ result.parts[3].kind = "FilterAST" /\ result.parts[3].empty
          /\ result.parts[4].kind = "GroupingAST" /\ result.parts[4].empty
          /\ result.parts[5].kind = "HavingAST" /\ result.parts[5].empty

C8_Witness ==
    /\ status = "done"
    /\ text = SelectStarFromS
    /\ Runs("Filter") = 1
    /\ result.parts[3].empty /\ result.parts[4].empty /\ result.parts[5].empty

\* A complete statement matches at the start of the text and leaves
\* characters behind it.
TrailingCharacters ==
    LET s == Rule("AnyStatement", text, 0)
    IN  s.ok /\ s.pos < Len(text)

\* C9: an input that has characters left after a complete statement has been
\* matched is a syntax error: parse returns an error and no AST.
C9_TrailingCharactersRejected ==
    (status # "start" /\ TrailingCharacters)
    => status = "syntax_error" /\ result = NoAST

C9_Witness ==
    /\ status = "syntax_error"
    /\ TrailingCharacters
    /\ text = SelectStarFromS \o <<";", ";">>

\* The text is no statement: none matches at its start, or one does and
\* leaves characters behind it.
IsSyntaxError ==
    LET s == Rule("AnyStatement", text, 0)
    IN  ~s.ok \/ s.pos # Len(text)

\* C10: for an input that is a syntax error no assembly operation is applied
\* to the fragment stack, neither the actions of a statement that matched a
\* prefix of the text nor those of alternatives abandoned by backtracking:
\* the error is reported with the stack untouched.
C10_NoReductionOnSyntaxError ==
    (status # "start" /\ IsSyntaxError)
    => /\ status = "syntax_error"
       /\ stack = <<>>
       /\ pc = 0
       /\ lastOp = NoOp
       /\ result = NoAST

\* A function name and its opening parenthesis match at some offset, the
\* function application there is abandoned, and the text is rejected.
C10_Witness ==
    /\ status = "syntax_error"
    /\ \E i \in 0..Len(text) :
          /\ Function(text, i).ok
          /\ LitS(text, sp(text, Function(text, i).pos), <<"(">>) # Miss
          /\ ~FuncApp(text, i).ok

ListOps ==
    {"AssembleProjections", "AssembleExpressions", "AssembleSourceSinkSpecs",
     "AssembleGrouping", "AssembleFrom"}

\* The payloads of the n topmost fragments before the last operation, in the
\* order they were pushed.
PreItems(n) == [k \in 1..n |-> lastOp.pre[Len(lastOp.pre) - n + k].comp]

\* The fragments were pushed left to right in the text.
PreInTextOrder(n) ==
    \A k \in 1..(n - 1) :
        lastOp.pre[Len(lastOp.pre) - n + k].end
            <= lastOp.pre[Len(lastOp.pre) - n + k + 1].begin

Col(c) == Leaf("ColumnName", <<c>>)

SelectABCFromS == <<"S","E","L","E","C","T"," ","a",","," ","b",","," ","c"," ","F","R","O","M"," ","s">>

\* C11: a variadic-list reduction (Projections, FuncParams, SourceSinkSpecs,
\* GroupList, Relations) over N >= 1 item fragments yields a sequence node
\* holding exactly those N items in the order they were pushed, left to right
\* in the text, duplicates kept; "SELECT a, b, c FROM s" gives the
\* projection list [a, b, c].
C11_ListKeepsItemsInOrder ==
    /\ (lastOp.name \in ListOps /\ lastOp.found >= 1)
       => /\ ~lastOp.panic
          /\ Len(stack) = Len(lastOp.pre) - lastOp.found + 1
          /\ Top(stack).comp.items = PreItems(lastOp.found)
          /\ PreInTextOrder(lastOp.found)
    /\ (text = SelectABCFromS /\ lastOp.name = "AssembleProjections")
       => Top(stack).comp.items = <<Col("a"), Col("b"), Col("c")>>
    /\ (text = SelectABCFromS /\ status = "done")
       => result.parts[1].items = <<Col("a"), Col("b"), Col("c")>>

\* A list of two equal items, both kept.
C11_Witness ==
    /\ lastOp.name = "AssembleGrouping"
    /\ lastOp.found = 2
    /\ Top(stack).comp.items = <<Col("b"), Col("b")>>

\* The precedence level of an operator, loosest first.
Level ==
    [Or |-> 1, And |-> 2, Equal |-> 3, Less |-> 3, LessOrEqual |-> 3,
     Greater |-> 3, GreaterOrEqual |-> 3, NotEqual |-> 3, Plus |-> 4,
     Minus |-> 4, Multiply |-> 5, Divide |-> 5, Modulo |-> 5]

Num(ds) == Leaf("NumericLiteral", ds)

SelectPrecedenceExample == <<"S","E","L","E","C","T"," ","a"," ","+"," ","3"," ","="," ","b"," ","O","R"," ","a"," ","="," ","b"," ","A","N","D"," ","b"," ",">"," ","0"," ","F","R","O","M"," ","s">>

\* (a + 3 = b) OR ((a = b) AND (b > 0))
PrecedenceExampleTree ==
    BinaryOpAST(Operator("Or"),
        BinaryOpAST(Operator("Equal"),
            BinaryOpAST(Operator("Plus"), Col("a"), Num(<<"3">>)),
            Col("b")),
        BinaryOpAST(Operator("And"),
            BinaryOpAST(Operator("Equal"), Col("a"), Col("b")),
            BinaryOpAST(Operator("Greater"), Col("b"), Num(<<"0">>))))

\* An operand that is itself a binary node of a tighter level than op.
TighterThan(c, op) == c.kind = "BinaryOpAST" => Level[c.Op.val] > Level[op.val]

\* C12: "a + 3 = b OR a = b AND b > 0" reduces to the tree with OR at the
\* root, (a + 3) = b on its left and (a = b) AND (b > 0) on its right; and in
\* every expression without parentheses the operator of a binary node is of
\* a looser level than the operators of its operands.
C12_LooserOperatorIsParent ==
    /\ (text = SelectPrecedenceExample /\ status = "done")
       => result.parts[1].items = <<PrecedenceExampleTree>>
    /\ (/\ LastBinary /\ lastOp.found = 3 /\ ~lastOp.panic
        /\ \A k \in 1..Len(text) : text[k] # "(")
       => /\ TighterThan(Top(stack).comp.Left, Top(stack).comp.Op)
          /\ TighterThan(Top(stack).comp.Right, Top(stack).comp.Op)

C12_Witness ==
    /\ text = SelectPrecedenceExample
    /\ LastBinary
    /\ Top(stack).comp = PrecedenceExampleTree

RuleLevel ==
    [orExpr |-> 1, andExpr |-> 2, comparisonExpr |-> 3, termExpr |-> 4,
     productExpr |-> 5]

\* The span of token x lies in the span of token y.
Inside(x, y) == y.begin <= x.begin /\ x.end <= y.end

\* The operator tokens of the level of the binary rule token acts[k] that
\* lie in its span and in no application of the same rule nested in it.
OwnOperators(k) ==
    {j \in 1..Len(acts) :
        /\ acts[j].rule \in DOMAIN Level
        /\ Level[acts[j].rule] = RuleLevel[acts[k].rule]
        /\ Inside(acts[j], acts[k])
        /\ ~\E m \in 1..Len(acts) :
              /\ m # k
              /\ acts[m].rule = acts[k].rule
              /\ Inside(acts[m], acts[k])
              /\ Inside(acts[j], acts[m])}

SelectChainPlus == <<"S","E","L","E","C","T"," ","a"," ","+"," ","b"," ","+"," ","c">>
SelectChainOr == <<"S","E","L","E","C","T"," ","a"," ","O","R"," ","b"," ","O","R"," ","c">>
SelectParenChain == <<"S","E","L","E","C","T"," ","(","a"," ","+"," ","b",")"," ","+"," ","c">>

\* C13: each binary level applies at most one operator per nesting:
\* "a + b + c" and "a OR b OR c" are not accepted as one expression (the
\* statement is rejected), every application of a level's rule in an accepted
\* text holds at most one operator of its level, and the chain is accepted
\* when written with a parenthesized operand.
C13_OneOperatorPerLevel ==
    /\ (status # "start" /\ text \in {SelectChainPlus, SelectChainOr})
       => status = "syntax_error"
    /\ status \in {"executing", "done"}
       => \A k \in 1..Len(acts) :
             acts[k].rule \in BinaryRules => Cardinality(OwnOperators(k)) <= 1
    /\ (status = "done" /\ text = SelectParenChain)
       => result.parts[1].items
             = <<BinaryOpAST(Operator("Plus"),
                     BinaryOpAST(Operator("Plus"), Col("a"), Col("b")), Col("c"))>>

\* The chain is rejected where the second operator of the level begins.
C13_Witness ==
    /\ status = "syntax_error"
    /\ text = SelectChainPlus
    /\ Rule("Expression", text, 7).pos = 13

Rel(n) == Leaf("Relation", <<n>>)

CreateStreamRange5Tuples ==
    <<"C","R","E","A","T","E"," ","S","T","R","E","A","M"," ","x"," ","A","S"," ","S","E","L","E","C","T"," ","I","S","T","R","E","A","M","(","a",")"," ","F","R","O","M"," ","s"," ","[","R","A","N","G","E"," ","5"," ","T","U","P","L","E","S","]">>

\* C14: "FROM s [RANGE 5 TUPLES]" reduces to a windowed-from node holding the
\* relation list [s] and the bound (5, TUPLES); in general the node holds the
\* relations in text order and then the Range, and the Range holds the
\* numeric literal and the unit it was built from.
C14_WindowedFromHoldsRelationsAndRange ==
    /\ (text = CreateStreamRange5Tuples /\ lastOp.name = "AssembleWindowedFrom")
       => Top(stack).comp.items
             = <<Rel("s"), Node("RangeAST", <<Num(<<"5">>), TagPayload.TUPLES>>)>>
    /\ (text = CreateStreamRange5Tuples /\ status = "done")
       => result.parts[3].items
             = <<Rel("s"), Node("RangeAST", <<Num(<<"5">>), TagPayload.TUPLES>>)>>
    /\ (lastOp.name = "AssembleWindowedFrom" /\ lastOp.found >= 1)
       => /\ ~lastOp.panic
          /\ Top(stack).comp.kind = "WindowedFromAST"
          /\ Top(stack).comp.items = PreItems(lastOp.found)
          /\ PreInTextOrder(lastOp.found)
          /\ \A k \in 1..(lastOp.found - 1) :
                Top(stack).comp.items[k].kind = "Relation"
          /\ Top(stack).comp.items[lastOp.found].kind = "RangeAST"
    /\ lastOp.name = "AssembleRange"
       => /\ ~lastOp.panic
          /\ Top(stack).comp = Node("RangeAST", PreItems(2))
          /\ PreComp(1).kind = "NumericLiteral"
          /\ PreComp(0) \in {TagPayload.TUPLES, TagPayload.SECONDS}
          /\ PreComp(0) = IF Fold(text[Top(lastOp.pre).begin + 1]) = "t"
                          THEN TagPayload.TUPLES ELSE TagPayload.SECONDS

\* Two relations and a range in seconds.
C14_Witness ==
    /\ lastOp.name = "AssembleWindowedFrom"
    /\ Top(stack).comp.items
          = <<Rel("s"), Rel("t"), Node("RangeAST", <<Num(<<"2">>), TagPayload.SECONDS>>)>>

SelectFromS == <<"S","E","L","E","C","T"," ","a"," ","F","R","O","M"," ","s">>
SelectFromSRange == <<"S","E","L","E","C","T"," ","a"," ","F","R","O","M"," ","s"," ","[","R","A","N","G","E"," ","5"," ","T","U","P","L","E","S","]">>
CreateStreamFromS == <<"C","R","E","A","T","E"," ","S","T","R","E","A","M"," ","x"," ","A","S"," ","S","E","L","E","C","T"," ","I","S","T","R","E","A","M","(","a",")"," ","F","R","O","M"," ","s">>
CreateStreamNoFrom == <<"C","R","E","A","T","E"," ","S","T","R","E","A","M"," ","x"," ","A","S"," ","S","E","L","E","C","T"," ","I","S","T","R","E","A","M","(","a",")">>
SelectNoFrom == <<"S","E","L","E","C","T"," ","a"," ">>

\* C15 as stated: SELECT and CREATE STREAM ... AS SELECT accept the same
\* FROM clause shapes: in both, a FROM relation list is accepted with a RANGE
\* bound and also without one.
C15_SameFromShapes ==
    (/\ status # "start"
     /\ text \in {SelectFromS, SelectFromSRange, CreateStreamFromS,
                  CreateStreamRange5Tuples})
    => status # "syntax_error"

\* C15 amended: SELECT accepts a FROM relation list only without a RANGE
\* bound, CREATE STREAM ... AS SELECT only with one, and both accept the FROM
\* clause left out: "SELECT a FROM s [RANGE 5 TUPLES]" and "CREATE STREAM x
\* AS SELECT ISTREAM(a) FROM s" are syntax errors; an accepted SELECT (alone
\* or after INSERT INTO) has no Range, an accepted CREATE STREAM ... AS
\* SELECT has one exactly when it has relations after FROM.
C15_FromShapesDiffer ==
    /\ (status # "start" /\ text \in {SelectFromSRange, CreateStreamFromS})
       => status = "syntax_error"
    /\ (status # "start"
            /\ text \in {SelectFromS, CreateStreamRange5Tuples, SelectNoFrom,
                         CreateStreamNoFrom})
       => status # "syntax_error"
    /\ (status \in {"executing", "done"}
            /\ acts[Len(acts)].rule \in {"SelectStmt", "InsertIntoSelectStmt"})
       => Runs("Range") = 0
    /\ (status \in {"executing", "done"}
            /\ acts[Len(acts)].rule = "CreateStreamAsSelectStmt")
       => /\ Runs("Range") <= 1
          /\ Runs("Range") = 1 <=> Runs("Relation") > 1

C15_Witness ==
    /\ status = "syntax_error"
    /\ text = SelectFromSRange
    /\ Rule("From", text, 9).pos = 16
    /\ Len(text) = 32

SelectTruexFromS == <<"S","E","L","E","C","T"," ","t","r","u","e","x"," ","F","R","O","M"," ","s">>

\* The match of the first alternative, in the production's order, that
\* matches is as long as the match of every alternative that matches.
LongestChosen(rs) == \A k \in 1..Len(rs) : rs[k].ok => FirstOf(rs).pos >= rs[k].pos

\* C16: wherever a production offers several alternatives, a shorter match
\* never pre-empts a longer one: at every offset of the text, the alternative
\* chosen by Literal, by ComparisonOp and by baseExpr between a boolean
\* literal and a column name matches as much text as any other alternative
\* of the production that matches there.
C16_ShorterNeverPreempts ==
    \A i \in 0..Len(text) :
        /\ LongestChosen(<<FloatLiteral(text, i), NumericLiteral(text, i),
                           StringLiteral(text, i)>>)
        /\ LongestChosen(<<Equal(text, i), NotEqual(text, i),
                           LessOrEqual(text, i), Less(text, i),
                           GreaterOrEqual(text, i), Greater(text, i),
                           NotEqual(text, i)>>)
        /\ LongestChosen(<<BooleanLiteral(text, i), ColumnName(text, i)>>)

\* "SELECT truex FROM s": the boolean literal takes "true" and the statement
\* is rejected, although truex is an identifier.
C16_TruexRejected ==
    /\ text = SelectTruexFromS
    /\ status = "syntax_error"
    /\ BooleanLiteral(text, 7).pos = 11
    /\ ColumnName(text, 7).pos = 12

Text314 == <<"3", ".", "1", "4">>
Select314 == <<"S","E","L","E","C","T"," ","3",".","1","4"," ">>
Float314(i) == Tok("FloatLiteral", i, i + 4)

\* "3.14" is written at offset i of the text.
Written314(i) == i + 4 <= Len(text) /\ SubSeq(text, i + 1, i + 4) = Text314

\* C17: wherever "3.14" is written, Literal matches it as the float literal
\* over its four characters; in an accepted statement it is one float token
\* and no other leaf token touches those characters (in particular no integer
\* 3), "SELECT 3.14 " is accepted, and executing the token pushes the one
\* fragment FloatLiteral "3.14" over [i, i + 4).
C17_FloatLiteralIsOneFragment ==
    /\ (status # "start" /\ text = Select314) => status # "syntax_error"
    /\ \A i \in 0..Len(text) :
          Written314(i)
          => /\ Literal(text, i) = Res(i + 4, <<Float314(i)>>)
             /\ acts # <<>>
                => /\ Cardinality({k \in 1..Len(acts) : acts[k] = Float314(i)}) = 1
                   /\ \A k \in 1..Len(acts) :
                         (/\ acts[k].rule \in LeafRules
                          /\ acts[k].begin < i + 4
                          /\ acts[k].end > i)
                         => acts[k] = Float314(i)
             /\ (/\ lastOp.name = "PushComponent"
                 /\ lastOp.begin < i + 4
                 /\ lastOp.end > i)
                => /\ stack = Append(lastOp.pre,
                                     Frag(i, i + 4, Leaf("FloatLiteral", Text314)))

C17_Witness ==
    /\ text = Select314
    /\ lastOp.name = "PushComponent"
    /\ stack = <<Frag(7, 11, Leaf("FloatLiteral", Text314))>>

IdentRules ==
    {"Relation", "ColumnName", "Function", "SourceSinkName", "SourceSinkType",
     "SourceSinkParamKey"}
SelectUpperIdent == <<"S","E","L","E","C","T"," ","A","b","_","1"," ","F","R","O","M"," ","S">>
SelectUnderscoreFirst == <<"S","E","L","E","C","T"," ","_","a"," ","F","R","O","M"," ","s">>
CreateSourceUpperIdent == <<"C","R","E","A","T","E"," ","S","O","U","R","C","E"," ","S","r","c"," ","T","Y","P","E"," ","T","y"," ","W","I","T","H"," ","K","e","y","=","v">>

\* The identifier tokens of the parsed text.
IdentTokens == {k \in 1..Len(acts) : acts[k].rule \in IdentRules}

\* C18 as stated: every accepted identifier matches [a-z][a-z0-9_]*: its
\* first character is a lowercase letter, every later one a lowercase letter,
\* a digit or an underscore.
C18_IdentifiersLowerCase ==
    \A k \in IdentTokens :
        /\ text[acts[k].begin + 1] \in Letters
        /\ \A j \in (acts[k].begin + 2)..acts[k].end :
              text[j] \in Letters \cup Digits \cup {"_"}

\* C18 amended: an identifier is a letter of either case followed by letters
\* of either case, digits and underscores, taken as far as they go; text
\* with uppercase letters is accepted as an identifier, text starting with
\* an underscore is not.
C18_IdentifiersAnyCase ==
    /\ \A k \in IdentTokens :
          /\ acts[k].begin < acts[k].end
          /\ text[acts[k].begin + 1] \in Letters \cup UpperSet
          /\ \A j \in (acts[k].begin + 2)..acts[k].end :
                text[j] \in Letters \cup UpperSet \cup Digits \cup {"_"}
          /\ acts[k].end < Len(text)
             => text[acts[k].end + 1] \notin Letters \cup UpperSet \cup Digits \cup {"_"}
    /\ (status # "start" /\ text \in {SelectUpperIdent, CreateSourceUpperIdent})
       => status # "syntax_error"
    /\ (status # "start" /\ text = SelectUnderscoreFirst)
       => status = "syntax_error"

C18_Witness ==
    /\ text = SelectUpperIdent
    /\ status = "done"
    /\ \E k \in IdentTokens : acts[k] = Tok("ColumnName", 7, 11)
    /\ \E k \in IdentTokens : acts[k] = Tok("Relation", 17, 18)

\* The Map of TestDecoder ("When decoding a map") and what the test expects
\* in the fields afterwards.
TestMap == [k \in {Entries[j].key : j \in 1..8} |->
               CASE k = <<"b">> -> BoolValue(TRUE)
                 [] k = <<"i">> -> IntValue(10)
                 [] k = <<"f">> -> FloatValue(3, <<1, 4>>)
                 [] k = <<"s","t","r","_","k","e","y">> -> StringValue(<<"s","t","r">>)
                 [] k = <<"f","l","o","a","t","_","m","a","p">> -> MapValue(FloatMap)
                 [] k = <<"i","n","t","_","a","r","r","a","y">> ->
                       ArrayValue(<<IntValue(1), IntValue(2), IntValue(3)>>)
                 [] k = <<"n","e","s","t","e","d">> -> MapValue(NestedMap)
                 [] k = <<"i","_","p","t","r">> -> IntValue(99)]

TestExpected ==
    <<GoBool(TRUE),
      GoInt(10),
      GoFloat64(3, <<1, 4>>),
      GoString(<<"s","t","r">>),
      [kind |-> "Map", isNil |-> FALSE,
       entries |-> [k \in DOMAIN FloatMap |->
                       GoFloat64(FloatMap[k].whole, FloatMap[k].frac)]],
      [kind |-> "Slice", isNil |-> FALSE, elems |-> <<GoInt(1), GoInt(2), GoInt(3)>>],
      GoStruct(<<GoInt(1), GoFloat64(2, <<3>>), GoString(<<"4">>)>>),
      [kind |-> "Ptr", isNil |-> FALSE, elem |-> GoInt(99)]>>

\* Decode has returned from a call with a pointer to the test's struct.
DecodedIntoStruct == phase = "returned" /\ dst.type = TPtr(TestStruct)

\* Every entry of the Map is an entry of the test's Map.
TestEntriesOnly ==
    /\ DOMAIN srcMap \subseteq DOMAIN TestMap
    /\ \A k \in DOMAIN srcMap : srcMap[k] = TestMap[k]

\* C19: Decode of a Map into a pointer to a struct returns nil and sets every
\* field that has an entry in the Map (under the field's tag name or the
\* snake-case form of its name) to the entry's value, for bool, int, float,
\* string, nested-struct, typed-map, typed-slice and pointer fields alike.
C19_DecodeSetsEveryField ==
    (DecodedIntoStruct /\ TestEntriesOnly)
    => /\ err = NoError
       /\ \A k \in 1..Len(TestStruct.fields) :
             FieldKey(config, TestStruct.fields[k]) \in DOMAIN srcMap
             => dst.val.fields[k] = TestExpected[k]

\* The test's own call: the whole Map of the test is decoded and Decode
\* returns an error, the typed map being the first field it cannot decode.
C19_TestMapFails ==
    /\ DecodedIntoStruct
    /\ srcMap = TestMap
    /\ err = "not implemented yet"
    /\ dst.val.fields[4] = GoString(<<"s","t","r">>)
    /\ dst.val.fields[5] = GoNil("Map")

\* C20: Decode returns a non-nil error whenever the Map has no entry for a
\* struct field whose tag carries the "required" option (field I of the
\* test's struct, key "i"), whatever the other entries of the Map are.
C20_MissingRequiredFieldFails ==
    (DecodedIntoStruct /\ <<"i">> \notin DOMAIN srcMap) => err # NoError

\* Decode returns nil although the required field has no entry.
C20_MissingRequiredAccepted ==
    /\ DecodedIntoStruct
    /\ srcMap = EmptyMap
    /\ err = NoError

\* The Map of TestDecoder ("When decoding a weakly typed value").
WeakMap ==
    WithEntry(WithEntry(EmptyMap,
        <<"i">>, IntValue(10)),
        <<"f">>, StringValue(<<"3",".","1","4">>))

\* The entry "f" is the string "3.14" and every other entry is an entry of
\* the test's Map for a bool, int, string or nested-struct field.
WeakFloatEntry ==
    /\ <<"f">> \in DOMAIN srcMap
    /\ srcMap[<<"f">>] = StringValue(<<"3",".","1","4">>)
    /\ \A k \in DOMAIN srcMap \ {<<"f">>} :
          /\ k \in {<<"b">>, <<"i">>, <<"s","t","r","_","k","e","y">>, <<"n","e","s","t","e","d">>}
          /\ srcMap[k] = TestMap[k]

\* C21: field F, whose tag carries the "weaklytyped" option, is decoded with
\* the lenient conversion: the String "3.14" decodes into it as 3.14 and
\* Decode returns nil; field B, without the option, is decoded with the
\* strict conversion, so that an Int for it is an error.
C21_WeaklyTypedFieldIsLenient ==
    /\ (DecodedIntoStruct /\ WeakFloatEntry)
       => /\ err = NoError
          /\ dst.val.fields[3] = GoFloat64(3, <<1, 4>>)
    /\ (DecodedIntoStruct /\ <<"b">> \in DOMAIN srcMap /\ srcMap[<<"b">>] = IntValue(1))
       => err # NoError

\* The test's own call: Decode returns the error of the strict conversion
\* and F keeps its zero value.
C21_WeakMapFails ==
    /\ DecodedIntoStruct
    /\ srcMap = WeakMap
    /\ err = "unsupported cast to float"
    /\ dst.val.fields[2] = GoInt(10)
    /\ dst.val.fields[3] = GoFloat64(0, <<>>)

\* C22: a Decoder whose config has ErrorUnused = true returns an error from
\* Decode when the Map contains a key that matches no field of the target
\* struct (here the key "other").
C22_ErrorUnusedReported ==
    (/\ DecodedIntoStruct
     /\ config.ErrorUnused
     /\ \E k \in DOMAIN srcMap :
           \A j \in 1..Len(TestStruct.fields) : FieldKey(config, TestStruct.fields[j]) # k)
    => err # NoError

\* Decode returns nil for a Map whose only key no field has, ErrorUnused
\* being set.
C22_UnusedKeyAccepted ==
    /\ DecodedIntoStruct
    /\ config.ErrorUnused
    /\ srcMap = WithEntry(EmptyMap, <<"o","t","h","e","r">>, IntValue(0))
    /\ err = NoError
    /\ dst.val = Zero(TestStruct)

\* The reductions that are given a span.
SpanOps ==
    {"AssembleBinaryOperation", "AssembleProjections", "AssembleExpressions",
     "AssembleFrom", "AssembleWindowedFrom", "AssembleFilter", "AssembleGrouping",
     "AssembleHaving", "AssembleSourceSinkSpecs"}

\* The last step was a span-scoped reduction that built its node.
SpanReduced == lastOp.name \in SpanOps /\ ~lastOp.panic

\* The reduction popped the fragments at the positions js of the stack it
\* found, these being its topmost ones, left every fragment below them as it
\* was and pushed one fragment spanning [begin, end) in their place.
ReplacedBySpan(js) ==
    /\ js = (Len(lastOp.pre) - lastOp.found + 1)..Len(lastOp.pre)
    /\ Len(stack) = Len(lastOp.pre) - lastOp.found + 1
    /\ Below(stack, 1) = Below(lastOp.pre, lastOp.found)
    /\ Top(stack).begin = lastOp.begin
    /\ Top(stack).end = lastOp.end

Marker(op, k) == Frag(k, k, Clause(ClauseOf[op], <<>>))

\* The fragments of s that are empty markers at offset k.
MarkersAt(s, k) ==
    {j \in 1..Len(s) : s[j].begin = k /\ s[j].end = k /\ s[j].comp.kind \in
                           {ClauseOf[op] : op \in DOMAIN ClauseOf} /\ s[j].comp.empty}

\* C24: a clause reduction over a zero-length span [k, k) consumes no
\* fragment, neither the empty markers already at [k, k) nor a fragment that
\* ends at k: it pushes its own marker on the stack as it found it.  For
\* "SELECT * FROM s" the reductions of Filter, Grouping and Having each do
\* so at [15, 15), and the statement reduction finds the three markers on top
\* of the FROM clause's fragment, which ends at 15.
C24_AbsentClausesKeepMarkers ==
    /\ (lastOp.name \in DOMAIN ClauseOf /\ lastOp.begin = lastOp.end)
       => /\ ~lastOp.panic
          /\ lastOp.found = 0
          /\ stack = Append(lastOp.pre, Marker(lastOp.name, lastOp.begin))
          /\ MarkersAt(stack, lastOp.begin)
                = MarkersAt(lastOp.pre, lastOp.begin) \cup {Len(stack)}
    /\ (text = SelectStarFromS
            /\ lastOp.name \in {"AssembleFilter", "AssembleGrouping", "AssembleHaving"})
       => /\ lastOp.begin = 15 /\ lastOp.end = 15
          /\ lastOp.found = 0
    /\ (text = SelectStarFromS /\ lastOp.name = "AssembleSelect")
       => /\ ~lastOp.panic
          /\ Len(lastOp.pre) = 5
          /\ lastOp.pre[2].comp.kind = "FromAST" /\ lastOp.pre[2].end = 15
          /\ lastOp.pre[3] = Marker("AssembleFilter", 15)
          /\ lastOp.pre[4] = Marker("AssembleGrouping", 15)
          /\ lastOp.pre[5] = Marker("AssembleHaving", 15)

\* Having reduced after Filter and Grouping, all three absent at the end of
\* "SELECT * FROM s": two markers and the FROM fragment ending at 15 lie
\* under the new marker.
C24_Witness ==
    /\ text = SelectStarFromS
    /\ lastOp.name = "AssembleHaving"
    /\ lastOp.found = 0
    /\ stack = Append(lastOp.pre, Marker("AssembleHaving", 15))
    /\ MarkersAt(lastOp.pre, 15) = {3, 4}
    /\ lastOp.pre[2].end = 15 /\ lastOp.pre[2].begin < 15
====
